---- MODULE Spec2Model ----
(***************************************************************************)
(* Clump detection in DNA sequences (swazara/bioinformatics-active-        *)
(* learning): the generalised detector find_clumps of bio_utils.py, the    *)
(* rolling exact counter clumpFinder of BetterClumpFinder.py, the k-mer    *)
(* codec, the d-neighbourhood generator and the clump de-duplication       *)
(* clean_clump_noise.                                                      *)
(*                                                                         *)
(* A Python string is a sequence of one-character strings; positions in    *)
(* the source are 0-based, TLA+ sequences are 1-based, so text[j] of the   *)
(* source is text[j+1] here.  A Python set is a set, a dict is a function  *)
(* whose DOMAIN is the set of keys, a tuple is a tuple.                    *)
(***************************************************************************)
EXTENDS Integers, Sequences, FiniteSets, TLC

(***************************************************************************)
(* Bounds of the model.                                                    *)
(***************************************************************************)
MaxN == 4        \* longest sequence handed to the detectors
MaxK == 2        \* largest k of the detectors
MaxL == 3        \* largest window length
MaxT == 2        \* largest threshold
MaxD == 1        \* largest mismatch budget of the detectors
MaxCodecK == 3   \* longest pattern of the codec round trips
MaxNbK == 3      \* longest pattern handed to neighborhood
MaxNbD == 3      \* largest d handed to neighborhood
MaxRecs == 3     \* longest list handed to clean_clump_noise
MaxPos == 1      \* largest position in a record handed to clean_clump_noise
MaxCount == 1    \* largest count in a record handed to clean_clump_noise
MaxCleanD == 1   \* largest d handed to clean_clump_noise
MaxParamN == 3   \* longest sequence of a call with unchecked parameters
MaxBelow == 1    \* how far below their valid range such parameters go
MaxAnyRecs == 3   \* longest list of arbitrary records for clean_clump_noise
MaxMatchN == 4    \* longest dna_seq of approximate_pattern_matching
MaxMatchK == 2    \* longest pattern of approximate_pattern_matching
MaxMatchD == 1    \* largest d of approximate_pattern_matching
MaxCaseN == 3    \* longest sequence of mixed case handed to the detectors
MaxBothN == 3    \* longest sequence handed to find_clumps and to the script

(***************************************************************************)
(* Python primitives.                                                      *)
(***************************************************************************)
Min(a, b) == IF a < b THEN a ELSE b
Max(a, b) == IF a > b THEN a ELSE b

Range(s) == {s[j] : j \in 1..Len(s)}

\* The DNA alphabet in the order of the literal "ACGT".
Bases == <<"A", "C", "G", "T">>
Alphabet == Range(Bases)

\* All strings of length len over the alphabet.
Patterns(len) == [1..len -> Alphabet]

\* All strings over the alphabet of length at most len.
Strings(len) == UNION {Patterns(m) : m \in 0..len}

\* A slice bound as Python normalises it: negative bounds count from the end,
\* and every bound is clamped into [0, n].
SliceBound(x, n) == IF x < 0 THEN Max(x + n, 0) ELSE Min(x, n)

\* s[a:b] of Python.
Slice(s, a, b) ==
    LET lo == SliceBound(a, Len(s))
        hi == SliceBound(b, Len(s))
    IN  IF hi <= lo THEN <<>> ELSE SubSeq(s, lo + 1, hi)

\* The empty dict.
EmptyDict == <<>>

(***************************************************************************)
(* bio_utils.py: core primitives.                                          *)
(***************************************************************************)

\* sum(a != b for a, b in zip(s1, s2)): zip stops at the shorter string.
hamming_distance(s1, s2) ==
    Cardinality({j \in 1..Min(Len(s1), Len(s2)) : s1[j] # s2[j]})

\* str.maketrans("ACGT", "TGCA"): characters outside the table are kept.
tabla(c) ==
    CASE c = "A" -> "T"
      [] c = "C" -> "G"
      [] c = "G" -> "C"
      [] c = "T" -> "A"
      [] OTHER -> c

\* pattern.translate(tabla)[::-1]
reverse_complement(pattern) ==
    [j \in 1..Len(pattern) |-> tabla(pattern[Len(pattern) + 1 - j])]

\* [c + suffix for suffix in suffixes]
PrependAll(c, suffixes) ==
    [j \in 1..Len(suffixes) |-> <<c>> \o suffixes[j]]

\* The inner generate(idx, remaining_d) of neighborhood: the list of the
\* suffixes pattern[idx:] rewritten with at most remaining_d substitutions,
\* in the order the code appends them.
RECURSIVE generate(_, _, _)
generate_sub_off_by_one(pattern, idx, remaining_d, base) ==
    IF remaining_d > 1 /\ base # pattern[idx + 1]
    THEN PrependAll(base, generate(pattern, idx + 1, remaining_d - 1))
    ELSE <<>>

generate_sub(pattern, idx, remaining_d, base) ==
    IF remaining_d > 0 /\ base # pattern[idx + 1]
    THEN PrependAll(base, generate(pattern, idx + 1, remaining_d - 1))
    ELSE <<>>

generate(pattern, idx, remaining_d) ==
    IF idx = Len(pattern)
    THEN << <<>> >>
    ELSE PrependAll(pattern[idx + 1], generate(pattern, idx + 1, remaining_d))
         \o generate_sub(pattern, idx, remaining_d, Bases[1])
         \o generate_sub(pattern, idx, remaining_d, Bases[2])
         \o generate_sub(pattern, idx, remaining_d, Bases[3])
         \o generate_sub(pattern, idx, remaining_d, Bases[4])

\* set(generate(0, d))
neighborhood(pattern, d) == Range(generate(pattern, 0, d))

(***************************************************************************)
(* BetterClumpFinder.py (and PatternToNumber.py, NumberToPattern.py,       *)
(* ComputeFrequencies.py, which repeat them): the k-mer codec.             *)
(***************************************************************************)

\* symbol.upper() on the characters the model uses.
upper(symbol) ==
    CASE symbol = "a" -> "A"
      [] symbol = "c" -> "C"
      [] symbol = "g" -> "G"
      [] symbol = "t" -> "T"
      [] symbol = "n" -> "N"
      [] OTHER -> symbol

\* mapping.get(symbol.upper(), 0)
get_val_swapped(symbol) ==
    LET u == upper(symbol)
    IN  CASE u = "A" -> 0
          [] u = "C" -> 2
          [] u = "G" -> 1
          [] u = "T" -> 3
          [] OTHER -> 0

get_val(symbol) ==
    LET u == upper(symbol)
    IN  CASE u = "A" -> 0
          [] u = "C" -> 1
          [] u = "G" -> 2
          [] u = "T" -> 3
          [] OTHER -> 0

\* patternToNumber: the left fold number = number * 4 + get_val(char).
RECURSIVE patternToNumber_from(_, _, _)
patternToNumber_from(pattern, j, number) ==
    IF j > Len(pattern)
    THEN number
    ELSE patternToNumber_from(pattern, j + 1, (number * 4) + get_val(pattern[j]))

patternToNumber_first_symbol(pattern) ==
    IF pattern = <<>> THEN 0 ELSE get_val(pattern[1])

patternToNumber(pattern) == patternToNumber_from(pattern, 1, 0)

\* numberToPattern: kk times, prepend bases[index % 4] and divide by 4.
RECURSIVE numberToPattern_from(_, _, _)
numberToPattern_from(index, rounds, pattern) ==
    IF rounds = 0
    THEN pattern
    ELSE numberToPattern_from(index \div 4, rounds - 1,
                              <<Bases[(index % 4) + 1]>> \o pattern)

numberToPattern(index, kk) == numberToPattern_from(index, kk, <<>>)

\* The rolling update of an index: drop the leading symbol, shift, add the
\* value of the entering symbol.
rolling_update_no_shift(idx, msk, symbol) == (idx % msk) + get_val(symbol)

rolling_update(idx, msk, symbol) == ((idx % msk) * 4) + get_val(symbol)

\* [0] * (4**kk)
Zeros(kk) == [j \in 1..(4 ^ kk) |-> 0]

\* lst[idx] += delta on a list indexed from 0.
Bump(lst, idx, delta) == [lst EXCEPT ![idx + 1] = @ + delta]

\* Lines 57-59: the marks of the first window.
mark_all_above(frecs, marks, thr) ==
    [j \in 1..Len(marks) |-> IF frecs[j] > thr THEN 1 ELSE marks[j]]

mark_all(frecs, marks, thr) ==
    [j \in 1..Len(marks) |-> IF frecs[j] >= thr THEN 1 ELSE marks[j]]

\* Lines 81-82: the mark of the k-mer that entered.
mark_entering_always(frecs, marks, idx, thr) == [marks EXCEPT ![idx + 1] = 1]

mark_entering(frecs, marks, idx, thr) ==
    IF frecs[idx + 1] >= thr THEN [marks EXCEPT ![idx + 1] = 1] ELSE marks

\* Line 85: [numberToPattern(i, k) for i in range(4**k) if clump_marks[i] == 1]
marked_patterns(marks, kk) ==
    LET marked == SelectSeq([j \in 1..Len(marks) |-> j - 1],
                            LAMBDA idx : marks[idx + 1] = 1)
    IN  [j \in 1..Len(marked) |-> numberToPattern(marked[j], kk)]

(***************************************************************************)
(* State.  The inputs of one detection call, the locals of find_clumps     *)
(* (bio_utils.py) and the locals of clumpFinder (BetterClumpFinder.py).    *)
(***************************************************************************)
VARIABLES
    sequence,           \* the DNA string
    k, L, t,            \* k-mer length, window length, threshold
    d, use_rc,          \* mismatch budget, reverse-complement switch
    pc,                 \* position of find_clumps
    i,                  \* loop variable of find_clumps
    memo_neighborhood,  \* dict kmer -> set of variants
    freq_map,           \* dict variant -> [q, exact, var]
    clumps,             \* dict variant -> first tuple that reached threshold
    result,             \* the records find_clumps returned
    error,              \* the exception that ended find_clumps, or "none"
    xpc,                \* position of clumpFinder
    xi,                 \* loop variable of clumpFinder
    text,               \* argument of ComputeFrequenciesRolling
    ci,                 \* loop variable of ComputeFrequenciesRolling
    current_idx,        \* rolling index of ComputeFrequenciesRolling
    frecuencias,        \* frequency array, one count per k-mer index
    clump_marks,        \* 1 for every index that reached the threshold
    mask,               \* 4^(k-1)
    index_start,        \* index of the k-mer at the left edge of the window
    index_end,          \* index of the k-mer at the right edge of the window
    xresult,            \* the list clumpFinder returned
    co_pc,              \* position of the codec round trip
    co_k,               \* length of the pattern of the round trip
    co_input,           \* the index or pattern the round trip started from
    co_index,           \* the index register of the round trip
    co_pattern,         \* the pattern register of the round trip
    nb_pc,              \* position of the neighborhood call
    nb_pattern,         \* argument pattern of neighborhood
    nb_d,               \* argument d of neighborhood
    nb_result,          \* the set neighborhood returned
    cl_pc,              \* position of clean_clump_noise
    clump_results,      \* argument list of clean_clump_noise
    cl_d,               \* argument d of clean_clump_noise
    remaining,          \* local list of clean_clump_noise
    cl_result,          \* local list result of clean_clump_noise
    cl_returned,        \* the list clean_clump_noise returned
    cl_first,           \* the list its first application returned
    cl_pass,            \* 1 in the first application, 2 in the second
    pf_pc,              \* position of find_clumps of ClumpFinder.py
    pf_i,               \* loop variable of get_frequency_table
    kmers_positions,    \* dict k-mer -> list of its start positions
    pf_keys,            \* the keys of kmers_positions in insertion order
    pf_j,               \* number of items the loop of line 34 has visited
    pf_clumps,          \* the list find_clumps of ClumpFinder.py builds
    run,                \* 1: the call on the sequence as given, 2: the call
                        \* on its uppercase form, 0: a single call
    first_result,       \* what find_clumps returned in run 1
    first_xresult,      \* what clumpFinder returned in run 1
    am_pc,              \* position of approximate_pattern_matching
    am_pattern,         \* argument pattern of approximate_pattern_matching
    dna_seq,            \* argument dna_seq of approximate_pattern_matching
    am_d,               \* argument d of approximate_pattern_matching
    am_i,               \* loop variable of approximate_pattern_matching
    d_match_ind,        \* the list approximate_pattern_matching builds
    sm_pc,              \* position of clumpFinder_with_mismatches_and_rc
    sm_i,               \* loop variable of the standalone function
    sm_memo,            \* its memo_neighborhood: k-mer -> neighbourhood
    sm_freq_map,        \* its freq_map
    sm_clumps,          \* its clumps
    sm_result,          \* the records it returned
    sm_error            \* the exception that ended it, or "none"

inVars == <<sequence, k, L, t, d, use_rc>>
fcVars == <<pc, i, memo_neighborhood, freq_map, clumps, result, error>>
exVars == <<xpc, xi, text, ci, current_idx, frecuencias, clump_marks, mask,
            index_start, index_end, xresult>>
coVars == <<co_pc, co_k, co_input, co_index, co_pattern>>
nbVars == <<nb_pc, nb_pattern, nb_d, nb_result>>
clVars == <<cl_pc, clump_results, cl_d, remaining, cl_result, cl_returned,
            cl_first, cl_pass>>
pfVars == <<pf_pc, pf_i, kmers_positions, pf_keys, pf_j, pf_clumps>>
rrVars == <<run, first_result, first_xresult>>
amVars == <<am_pc, am_pattern, dna_seq, am_d, am_i, d_match_ind>>
smVars == <<sm_pc, sm_i, sm_memo, sm_freq_map, sm_clumps, sm_result, sm_error>>
detVars == <<inVars, fcVars, exVars, pfVars, rrVars>>

(***************************************************************************)
(* find_clumps: get_variants, add_kmer, remove_kmer.                       *)
(***************************************************************************)

\* The set get_variants computes for a k-mer it has not met before.
compute_variants_no_rc(kmer, dd, rc) == neighborhood(kmer, dd)

compute_variants(kmer, dd, rc) ==
    neighborhood(kmer, dd)
        \cup (IF rc THEN neighborhood(reverse_complement(kmer), dd) ELSE {})

\* memo_neighborhood after get_variants(kmer); the value get_variants
\* returns is the entry of kmer in it.
memo_after(memo, kmer, dd, rc) ==
    IF kmer \in DOMAIN memo
    THEN memo
    ELSE memo @@ (kmer :> compute_variants(kmer, dd, rc))

\* A fresh entry of freq_map.
NewEntry == [q |-> <<>>, exact |-> 0, var |-> 0]

\* Lines 254-259: the entry e of a variant after the k-mer at pos was added.
entry_after_add_exact_only(e, variant, kmer, pos) ==
    [q     |-> Append(e.q, <<pos, variant = kmer>>),
     exact |-> e.exact + 1,
     var   |-> e.var]

entry_after_add(e, variant, kmer, pos) ==
    LET is_exact == (variant = kmer)
    IN  [q     |-> Append(e.q, <<pos, is_exact>>),
         exact |-> IF is_exact THEN e.exact + 1 ELSE e.exact,
         var   |-> IF is_exact THEN e.var ELSE e.var + 1]

\* Lines 260-261: the test that guards the write of a record; has_record is
\* "variant in clumps".
crosses_overwrite(has_record, e, thr) == e.exact + e.var >= thr

crosses_at_equality(has_record, e, thr) == e.exact + e.var = thr /\ ~has_record

crosses(has_record, e, thr) == e.exact + e.var >= thr /\ ~has_record

\* Lines 262-267: the record written; first_pos is the position at the front
\* of the queue.
new_record_trigger_pos(variant, e) ==
    <<variant, e.q[Len(e.q)][1], e.exact, e.var>>

new_record_queue_length(variant, e) == <<variant, e.q[1][1], Len(e.q), e.var>>

new_record(variant, e) == <<variant, e.q[1][1], e.exact, e.var>>

\* add_kmer(kmer, pos), on the pair (freq_map, clumps).  An iteration of the
\* loop over the variants reads and writes only the entries of its own
\* variant, so the loop is the update of each variant's entries, whatever
\* the iteration order of the set.  A variant without entry gets a fresh one
\* first (lines 252-253).
add_kmer(fm, cl, variants, kmer, pos, thr) ==
    LET known == DOMAIN fm
        flagged == DOMAIN cl
        fm1 == [v \in known \cup variants |->
                   IF v \in variants
                   THEN entry_after_add(IF v \in known THEN fm[v] ELSE NewEntry,
                                        v, kmer, pos)
                   ELSE fm[v]]
        written == {v \in variants : crosses(v \in flagged, fm1[v], thr)}
    IN  [freq_map |-> fm1,
         clumps   |-> IF written = {}
                      THEN cl
                      ELSE [v \in flagged \cup written |->
                               IF v \in written THEN new_record(v, fm1[v])
                               ELSE cl[v]]]

\* Lines 271-275: popleft and the decrement of the counter the popped entry
\* names.
entry_after_remove_keep_count(e) ==
    [q |-> Tail(e.q), exact |-> e.exact, var |-> e.var]

entry_after_remove_pop_last(e) ==
    LET is_exact == e.q[Len(e.q)][2]
    IN  [q     |-> SubSeq(e.q, 1, Len(e.q) - 1),
         exact |-> IF is_exact THEN e.exact - 1 ELSE e.exact,
         var   |-> IF is_exact THEN e.var ELSE e.var - 1]

entry_after_remove(e) ==
    LET is_exact == Head(e.q)[2]
    IN  [q     |-> Tail(e.q),
         exact |-> IF is_exact THEN e.exact - 1 ELSE e.exact,
         var   |-> IF is_exact THEN e.var ELSE e.var - 1]

\* remove_kmer(kmer) when no iteration raises: each variant's entry is
\* popped once.
remove_kmer(fm, variants) ==
    [v \in DOMAIN fm |->
        IF v \in variants THEN entry_after_remove(fm[v]) ELSE fm[v]]

\* The exceptions remove_kmer can raise: freq_map[variant] on a missing key,
\* popleft on an empty deque.
remove_failures(fm, variants) ==
    (IF \E v \in variants : v \notin DOMAIN fm THEN {"KeyError"} ELSE {})
    \cup (IF \E v \in variants : v \in DOMAIN fm /\ fm[v].q = <<>>
          THEN {"IndexError"} ELSE {})

\* list(clumps.values()), as the set of its records: the list holds one
\* record per key, in the insertion order of the dict.
clump_values(cl) == {cl[v] : v \in DOMAIN cl}

(***************************************************************************)
(* find_clumps, step by step.                                              *)
(***************************************************************************)
n == Len(sequence)

\* Lines 232-248: the length check and the empty dicts.
fc_Call_no_length_check ==
    /\ pc = "call"
    /\ pc' = "init"
    /\ i' = 0
    /\ memo_neighborhood' = EmptyDict
    /\ freq_map' = EmptyDict
    /\ clumps' = EmptyDict
    /\ UNCHANGED <<result, error>>
    /\ UNCHANGED <<inVars, exVars, pfVars, rrVars, coVars, nbVars, clVars,
                   amVars, smVars>>

fc_Call ==
    /\ pc = "call"
    /\ IF n < L
       THEN /\ pc' = "done"
            /\ result' = {}
            /\ UNCHANGED <<i, memo_neighborhood, freq_map, clumps, error>>
       ELSE /\ pc' = "init"
            /\ i' = 0
            /\ memo_neighborhood' = EmptyDict
            /\ freq_map' = EmptyDict
            /\ clumps' = EmptyDict
            /\ UNCHANGED <<result, error>>
    /\ UNCHANGED <<inVars, exVars, pfVars, rrVars, coVars, nbVars, clVars,
                   amVars, smVars>>

\* Lines 278-279: one iteration of the initialisation of the first window.
\* memo and st are the values get_variants and add_kmer leave behind, each
\* bound once.
fc_InitAdd ==
    /\ pc = "init"
    /\ i < L - k + 1
    /\ LET kmer == Slice(sequence, i, i + k)
       IN  \E memo \in {memo_after(memo_neighborhood, kmer, d, use_rc)} :
           \E st \in {add_kmer(freq_map, clumps, memo[kmer], kmer, i, t)} :
              /\ freq_map' = st.freq_map
              /\ clumps' = st.clumps
              /\ memo_neighborhood' = memo
    /\ i' = i + 1
    /\ UNCHANGED <<pc, result, error>>
    /\ UNCHANGED <<inVars, exVars, pfVars, rrVars, coVars, nbVars, clVars,
                   amVars, smVars>>

\* The initialisation loop ends; the slide loop starts at i = 1.
fc_InitEnd_from_zero ==
    /\ pc = "init"
    /\ i >= L - k + 1
    /\ pc' = "slide"
    /\ i' = 0
    /\ UNCHANGED <<memo_neighborhood, freq_map, clumps, result, error>>
    /\ UNCHANGED <<inVars, exVars, pfVars, rrVars, coVars, nbVars, clVars,
                   amVars, smVars>>

fc_InitEnd ==
    /\ pc = "init"
    /\ i >= L - k + 1
    /\ pc' = "slide"
    /\ i' = 1
    /\ UNCHANGED <<memo_neighborhood, freq_map, clumps, result, error>>
    /\ UNCHANGED <<inVars, exVars, pfVars, rrVars, coVars, nbVars, clVars,
                   amVars, smVars>>

\* Line 283: remove_kmer of the k-mer leaving at i - 1.
fc_Remove ==
    /\ pc = "slide"
    /\ i < n - L + 1
    /\ LET kmer == Slice(sequence, i - 1, i - 1 + k)
       IN  \E memo \in {memo_after(memo_neighborhood, kmer, d, use_rc)} :
           \E failures \in {remove_failures(freq_map, memo[kmer])} :
              /\ memo_neighborhood' = memo
              /\ IF failures = {}
                 THEN /\ freq_map' = remove_kmer(freq_map, memo[kmer])
                      /\ pc' = "add"
                      /\ error' = error
                 ELSE /\ freq_map' = freq_map
                      /\ pc' = "error"
                      /\ error' \in failures
    /\ UNCHANGED <<i, clumps, result>>
    /\ UNCHANGED <<inVars, exVars, pfVars, rrVars, coVars, nbVars, clVars,
                   amVars, smVars>>

\* Lines 284-285: add_kmer of the k-mer entering at i + L - k.
fc_Add ==
    /\ pc = "add"
    /\ LET idx_in == i + L - k
           kmer == Slice(sequence, idx_in, idx_in + k)
       IN  \E memo \in {memo_after(memo_neighborhood, kmer, d, use_rc)} :
           \E st \in {add_kmer(freq_map, clumps, memo[kmer], kmer, idx_in, t)} :
              /\ freq_map' = st.freq_map
              /\ clumps' = st.clumps
              /\ memo_neighborhood' = memo
    /\ i' = i + 1
    /\ pc' = "slide"
    /\ UNCHANGED <<result, error>>
    /\ UNCHANGED <<inVars, exVars, pfVars, rrVars, coVars, nbVars, clVars,
                   amVars, smVars>>

\* Line 287: the slide loop ends and the records are returned.
fc_Return ==
    /\ pc = "slide"
    /\ i >= n - L + 1
    /\ pc' = "done"
    /\ result' = clump_values(clumps)
    /\ UNCHANGED <<i, memo_neighborhood, freq_map, clumps, error>>
    /\ UNCHANGED <<inVars, exVars, pfVars, rrVars, coVars, nbVars, clVars,
                   amVars, smVars>>

fcNext == fc_Call \/ fc_InitAdd \/ fc_InitEnd \/ fc_Remove \/ fc_Add \/ fc_Return

\* The state of find_clumps before the call.
fcInit ==
    /\ pc = "call"
    /\ i = 0
    /\ memo_neighborhood = EmptyDict
    /\ freq_map = EmptyDict
    /\ clumps = EmptyDict
    /\ result = {}
    /\ error = "none"

\* The inputs of a detection call: a sequence over {A,C,G,T} and parameters
\* with k >= 1, L >= k, t >= 1, d >= 0.
InputInit ==
    /\ sequence \in Strings(MaxN)
    /\ k \in 1..MaxK
    /\ L \in k..MaxL
    /\ t \in 1..MaxT
    /\ d \in 0..MaxD
    /\ use_rc \in BOOLEAN

\* The inputs of a call whose parameters nothing has checked: find_clumps
\* takes any integers for k, L, t and d.
ParamInit ==
    /\ sequence \in Strings(MaxParamN)
    /\ k \in (0 - MaxBelow)..MaxK
    /\ L \in (0 - MaxBelow)..MaxL
    /\ t \in (0 - MaxBelow)..MaxT
    /\ d \in (0 - MaxBelow)..MaxD
    /\ use_rc \in BOOLEAN

\* The inputs handed to find_clumps and then to the script's function.
BothInputInit ==
    /\ sequence \in Strings(MaxBothN)
    /\ k \in 1..MaxK
    /\ L \in k..MaxL
    /\ t \in 1..MaxT
    /\ d \in 0..MaxD
    /\ use_rc \in BOOLEAN

\* The inputs of a call with the degenerate threshold t = 0.
DegenerateInputInit ==
    /\ sequence \in Strings(MaxN)
    /\ k \in 1..MaxK
    /\ L \in k..MaxL
    /\ t = 0
    /\ d \in 0..MaxD
    /\ use_rc \in BOOLEAN

\* The inputs of a detection call with the threshold 1.  The threshold is
\* read only by the tests that write a record or a mark (lines 260 of
\* bio_utils.py, 58 and 81 of BetterClumpFinder.py): the counters, the
\* queues and the window positions are the same for every t.
WindowInputInit ==
    /\ sequence \in Strings(MaxN)
    /\ k \in 1..MaxK
    /\ L \in k..MaxL
    /\ t = 1
    /\ d \in 0..MaxD
    /\ use_rc \in BOOLEAN

\* The inputs of a detection call in exact mode: no mismatch, no reverse
\* complement.
ExactInputInit ==
    /\ sequence \in Strings(MaxN)
    /\ k \in 1..MaxK
    /\ L \in k..MaxL
    /\ t \in 1..MaxT
    /\ d = 0
    /\ use_rc = FALSE

(***************************************************************************)
(* clumpFinder of BetterClumpFinder.py, step by step, with its call of     *)
(* ComputeFrequenciesRolling unfolded.  It is run on the sequence and the  *)
(* k, L, t of the detection call once find_clumps has ended, when the call *)
(* asks for no mismatches and no reverse complement; the string valores is *)
(* taken as already split into the three integers.                         *)
(***************************************************************************)

\* Lines 47-55 and 27-33: the length check, the arrays, and the first k-mer
\* of ComputeFrequenciesRolling(secuencia[0:L], k).
ex_Call ==
    /\ xpc = "wait"
    /\ pc \in {"done", "error"}
    /\ d = 0
    /\ ~use_rc
    /\ IF n < L
       THEN /\ xpc' = "done"
            /\ xresult' = <<>>
            /\ UNCHANGED <<xi, text, ci, current_idx, frecuencias, clump_marks,
                           mask, index_start, index_end>>
       ELSE /\ clump_marks' = Zeros(k)
            /\ mask' = 4 ^ (k - 1)
            /\ text' = Slice(sequence, 0, L)
            /\ IF Len(text') < k
               THEN /\ frecuencias' = Zeros(k)
                    /\ xpc' = "marks"
                    /\ UNCHANGED <<ci, current_idx>>
               ELSE /\ current_idx' = patternToNumber(Slice(text', 0, k))
                    /\ frecuencias' = Bump(Zeros(k), current_idx', 1)
                    /\ ci' = 1
                    /\ xpc' = "cfr"
            /\ UNCHANGED <<xi, index_start, index_end, xresult>>
    /\ UNCHANGED <<inVars, fcVars, pfVars, rrVars, coVars, nbVars, clVars,
                   amVars, smVars>>

\* Lines 39-42: one iteration of the loop of ComputeFrequenciesRolling.
ex_CfrStep ==
    /\ xpc = "cfr"
    /\ ci < Len(text) - k + 1
    /\ current_idx' = rolling_update(current_idx, mask, text[ci + k])
    /\ frecuencias' = Bump(frecuencias, current_idx', 1)
    /\ ci' = ci + 1
    /\ UNCHANGED <<xpc, xi, text, clump_marks, mask, index_start, index_end,
                   xresult>>
    /\ UNCHANGED <<inVars, fcVars, pfVars, rrVars, coVars, nbVars, clVars,
                   amVars, smVars>>

\* Line 44: ComputeFrequenciesRolling returns.
ex_CfrReturn ==
    /\ xpc = "cfr"
    /\ ci >= Len(text) - k + 1
    /\ xpc' = "marks"
    /\ UNCHANGED <<xi, text, ci, current_idx, frecuencias, clump_marks, mask,
                   index_start, index_end, xresult>>
    /\ UNCHANGED <<inVars, fcVars, pfVars, rrVars, coVars, nbVars, clVars,
                   amVars, smVars>>

\* Lines 57-65: the marks of the first window and the two rolling indices.
ex_Marks ==
    /\ xpc = "marks"
    /\ clump_marks' = mark_all(frecuencias, clump_marks, t)
    /\ index_start' = patternToNumber(Slice(sequence, 0, k))
    /\ index_end' = patternToNumber(Slice(sequence, L - k, L))
    /\ xi' = 1
    /\ xpc' = "slide"
    /\ UNCHANGED <<text, ci, current_idx, frecuencias, mask, xresult>>
    /\ UNCHANGED <<inVars, fcVars, pfVars, rrVars, coVars, nbVars, clVars,
                   amVars, smVars>>

\* Lines 68-82: one slide of the window.
ex_Slide ==
    /\ xpc = "slide"
    /\ xi < n - L + 1
    /\ index_start' = rolling_update(index_start, mask, sequence[xi + k])
    /\ index_end' = rolling_update(index_end, mask, sequence[xi + L])
    /\ frecuencias' = Bump(Bump(frecuencias, index_start, -1), index_end', 1)
    /\ clump_marks' = mark_entering(frecuencias', clump_marks, index_end', t)
    /\ xi' = xi + 1
    /\ UNCHANGED <<xpc, text, ci, current_idx, mask, xresult>>
    /\ UNCHANGED <<inVars, fcVars, pfVars, rrVars, coVars, nbVars, clVars,
                   amVars, smVars>>

\* Line 85: the loop ends and the marked indices are decoded.
ex_Return ==
    /\ xpc = "slide"
    /\ xi >= n - L + 1
    /\ xresult' = marked_patterns(clump_marks, k)
    /\ xpc' = "done"
    /\ UNCHANGED <<xi, text, ci, current_idx, frecuencias, clump_marks, mask,
                   index_start, index_end>>
    /\ UNCHANGED <<inVars, fcVars, pfVars, rrVars, coVars, nbVars, clVars,
                   amVars, smVars>>

exNext ==
    ex_Call \/ ex_CfrStep \/ ex_CfrReturn \/ ex_Marks \/ ex_Slide \/ ex_Return

\* The state of clumpFinder before the call.
exInit ==
    /\ xpc = "wait"
    /\ xi = 0
    /\ text = <<>>
    /\ ci = 0
    /\ current_idx = 0
    /\ frecuencias = <<>>
    /\ clump_marks = <<>>
    /\ mask = 0
    /\ index_start = 0
    /\ index_end = 0
    /\ xresult = <<>>

(***************************************************************************)
(* find_clumps of ClumpFinder.py, step by step, with its call of           *)
(* get_frequency_table unfolded.  It is run on the sequence and the k, L,  *)
(* t of the detection call once clumpFinder has ended.                     *)
(***************************************************************************)

\* lst[idx] of Python on a list: a negative index counts from the end, an
\* index outside the list raises IndexError.
in_range(lst, idx) == idx >= 0 - Len(lst) /\ idx < Len(lst)

py_index(lst, idx) == IF idx < 0 THEN lst[idx + Len(lst) + 1] ELSE lst[idx + 1]

\* Lines 36-41: the loop over the runs of thr consecutive positions, from
\* run j on: "hit" when a run spans at most span, "miss" when the loop
\* ends, "IndexError" when a position outside the list is read.
RECURSIVE scan_positions(_, _, _, _)
scan_positions(positions, j, thr, span) ==
    IF j >= Len(positions) - thr + 1 THEN "miss"
    ELSE IF ~in_range(positions, j + thr - 1) \/ ~in_range(positions, j)
         THEN "IndexError"
    ELSE IF py_index(positions, j + thr - 1) - py_index(positions, j) <= span
         THEN "hit"
    ELSE scan_positions(positions, j + 1, thr, span)

\* Lines 31-32 and 23: the call, with the empty table.
pf_Call ==
    /\ pf_pc = "wait"
    /\ xpc = "done"
    /\ pf_pc' = "table"
    /\ pf_i' = 0
    /\ kmers_positions' = EmptyDict
    /\ pf_keys' = <<>>
    /\ UNCHANGED <<pf_j, pf_clumps>>
    /\ UNCHANGED <<inVars, fcVars, exVars, rrVars, coVars, nbVars, clVars,
                   amVars, smVars>>

\* Lines 24-26: one iteration of the loop of get_frequency_table.
pf_TableStep ==
    /\ pf_pc = "table"
    /\ pf_i < n - k + 1
    /\ LET pattern == Slice(sequence, pf_i, pf_i + k)
       IN  IF pattern \in DOMAIN kmers_positions
           THEN /\ kmers_positions' =
                      [kmers_positions EXCEPT ![pattern] = Append(@, pf_i)]
                /\ pf_keys' = pf_keys
           ELSE /\ kmers_positions' =
                      [v \in DOMAIN kmers_positions \cup {pattern} |->
                          IF v = pattern THEN <<pf_i>> ELSE kmers_positions[v]]
                /\ pf_keys' = Append(pf_keys, pattern)
    /\ pf_i' = pf_i + 1
    /\ UNCHANGED <<pf_pc, pf_j, pf_clumps>>
    /\ UNCHANGED <<inVars, fcVars, exVars, rrVars, coVars, nbVars, clVars,
                   amVars, smVars>>

\* Lines 27 and 32: get_frequency_table returns and the list is created.
pf_TableReturn ==
    /\ pf_pc = "table"
    /\ pf_i >= n - k + 1
    /\ pf_pc' = "scan"
    /\ pf_j' = 0
    /\ pf_clumps' = <<>>
    /\ UNCHANGED <<pf_i, kmers_positions, pf_keys>>
    /\ UNCHANGED <<inVars, fcVars, exVars, rrVars, coVars, nbVars, clVars,
                   amVars, smVars>>

\* Lines 34-41: one item of the table.
pf_Item ==
    /\ pf_pc = "scan"
    /\ pf_j < Len(pf_keys)
    /\ LET kmer == pf_keys[pf_j + 1]
           positions == kmers_positions[kmer]
           found == IF Len(positions) >= t
                    THEN scan_positions(positions, 0, t, L - k)
                    ELSE "miss"
       IN  /\ pf_clumps' = IF found = "hit" THEN Append(pf_clumps, kmer)
                           ELSE pf_clumps
           /\ pf_pc' = IF found = "IndexError" THEN "error" ELSE "scan"
    /\ pf_j' = pf_j + 1
    /\ UNCHANGED <<pf_i, kmers_positions, pf_keys>>
    /\ UNCHANGED <<inVars, fcVars, exVars, rrVars, coVars, nbVars, clVars,
                   amVars, smVars>>

\* Line 43: the list is returned.
pf_Return ==
    /\ pf_pc = "scan"
    /\ pf_j >= Len(pf_keys)
    /\ pf_pc' = "done"
    /\ UNCHANGED <<pf_i, kmers_positions, pf_keys, pf_j, pf_clumps>>
    /\ UNCHANGED <<inVars, fcVars, exVars, rrVars, coVars, nbVars, clVars,
                   amVars, smVars>>

pfNext == pf_Call \/ pf_TableStep \/ pf_TableReturn \/ pf_Item \/ pf_Return

\* The state of find_clumps of ClumpFinder.py before the call.
pfInit ==
    /\ pf_pc = "wait" /\ pf_i = 0 /\ kmers_positions = EmptyDict
    /\ pf_keys = <<>> /\ pf_j = 0 /\ pf_clumps = <<>>

(***************************************************************************)
(* The example of Rosalind BA1E: one sequence of 75 bases with k = 5,      *)
(* L = 75, t = 4, given to the three detectors.                            *)
(***************************************************************************)
ScenarioSequence ==
    <<"C", "G", "G", "A", "C", "T", "C", "G", "A", "C", "A", "G", "A", "T", "G",
      "T", "G", "A", "A", "G", "A", "A", "C", "G", "A", "C", "A", "A", "T", "G",
      "T", "G", "A", "A", "G", "A", "C", "T", "C", "G", "A", "C", "A", "C", "G",
      "A", "C", "A", "G", "A", "G", "T", "G", "A", "A", "G", "A", "G", "A", "A",
      "G", "A", "G", "G", "A", "A", "A", "C", "A", "T", "T", "G", "T", "A", "A">>

ScenarioInputInit ==
    /\ sequence = ScenarioSequence
    /\ k = 5
    /\ L = 75
    /\ t = 4
    /\ d = 0
    /\ use_rc = FALSE

(***************************************************************************)
(* The detectors on a sequence of mixed case.  Neither find_clumps nor     *)
(* clumpFinder changes the case of its argument; the call is made on the   *)
(* sequence as given and then again, with the same parameters, on          *)
(* sequence.upper().                                                       *)
(***************************************************************************)

\* The bases in both cases.
CaseAlphabet == {"A", "C", "G", "T", "a", "c", "g", "t"}

\* str.upper() on a string of the model.
upper_form(s) == [j \in 1..Len(s) |-> upper(s[j])]

CaseInputInit ==
    /\ sequence \in UNION {[1..m -> CaseAlphabet] : m \in 0..MaxCaseN}
    /\ k \in 1..MaxK
    /\ L \in k..MaxL
    /\ t \in 1..MaxT
    /\ d \in 0..MaxD
    /\ use_rc \in BOOLEAN
    /\ run = 1
    /\ first_result = {}
    /\ first_xresult = <<>>

\* Both detectors have ended on the sequence as given: their results are
\* kept and the call starts again on the uppercase form.
det_Again ==
    /\ run = 1
    /\ pc \in {"done", "error"}
    /\ (d = 0 /\ ~use_rc) => xpc = "done"
    /\ run' = 2
    /\ first_result' = result
    /\ first_xresult' = xresult
    /\ sequence' = upper_form(sequence)
    /\ pc' = "call"
    /\ i' = 0
    /\ memo_neighborhood' = EmptyDict
    /\ freq_map' = EmptyDict
    /\ clumps' = EmptyDict
    /\ result' = {}
    /\ error' = "none"
    /\ xpc' = "wait"
    /\ xi' = 0
    /\ text' = <<>>
    /\ ci' = 0
    /\ current_idx' = 0
    /\ frecuencias' = <<>>
    /\ clump_marks' = <<>>
    /\ mask' = 0
    /\ index_start' = 0
    /\ index_end' = 0
    /\ xresult' = <<>>
    /\ UNCHANGED <<k, L, t, d, use_rc>>
    /\ UNCHANGED <<pfVars, coVars, nbVars, clVars,
                   amVars, smVars>>

(***************************************************************************)
(* The states in which a component is not running.                         *)
(***************************************************************************)
pfIdle ==
    /\ pf_pc = "off" /\ pf_i = 0 /\ kmers_positions = EmptyDict
    /\ pf_keys = <<>> /\ pf_j = 0 /\ pf_clumps = <<>>

rrIdle ==
    /\ run = 0 /\ first_result = {} /\ first_xresult = <<>>

detIdle ==
    /\ sequence = <<>> /\ k = 1 /\ L = 1 /\ t = 1 /\ d = 0 /\ use_rc = FALSE
    /\ pc = "off" /\ i = 0 /\ memo_neighborhood = EmptyDict
    /\ freq_map = EmptyDict /\ clumps = EmptyDict /\ result = {}
    /\ error = "none"
    /\ xpc = "off" /\ xi = 0 /\ text = <<>> /\ ci = 0 /\ current_idx = 0
    /\ frecuencias = <<>> /\ clump_marks = <<>> /\ mask = 0
    /\ index_start = 0 /\ index_end = 0 /\ xresult = <<>>
    /\ pfIdle
    /\ rrIdle

amIdle ==
    /\ am_pc = "off" /\ am_pattern = <<>> /\ dna_seq = <<>> /\ am_d = 0
    /\ am_i = 0 /\ d_match_ind = <<>>

smIdle ==
    /\ sm_pc = "off" /\ sm_i = 0 /\ sm_memo = EmptyDict
    /\ sm_freq_map = EmptyDict /\ sm_clumps = EmptyDict /\ sm_result = {}
    /\ sm_error = "none"

coIdle ==
    /\ co_pc = "off" /\ co_k = 0 /\ co_input = 0 /\ co_index = 0
    /\ co_pattern = <<>>

nbIdle ==
    /\ nb_pc = "off" /\ nb_pattern = <<>> /\ nb_d = 0 /\ nb_result = {}

clIdle ==
    /\ cl_pc = "off" /\ clump_results = <<>> /\ cl_d = 0 /\ remaining = <<>>
    /\ cl_result = <<>> /\ cl_returned = <<>> /\ cl_first = <<>> /\ cl_pass = 0

(***************************************************************************)
(* The codec round trips: an index is decoded and encoded again, a pattern *)
(* is encoded and decoded again.                                           *)
(***************************************************************************)
coInit ==
    /\ co_k \in 1..MaxCodecK
    /\ \/ /\ co_pc = "index"
          /\ co_index \in 0..((4 ^ co_k) - 1)
          /\ co_input = co_index
          /\ co_pattern = <<>>
       \/ /\ co_pc = "pattern"
          /\ co_pattern \in Patterns(co_k)
          /\ co_input = co_pattern
          /\ co_index = 0

\* numberToPattern(index, k)
co_Decode ==
    /\ co_pc \in {"index", "encoded"}
    /\ co_pattern' = numberToPattern(co_index, co_k)
    /\ co_pc' = IF co_pc = "index" THEN "decoded" ELSE "pattern_back"
    /\ UNCHANGED <<co_k, co_input, co_index>>
    /\ UNCHANGED <<detVars, nbVars, clVars,
                   amVars, smVars>>

\* patternToNumber(pattern)
co_Encode ==
    /\ co_pc \in {"pattern", "decoded"}
    /\ co_index' = patternToNumber(co_pattern)
    /\ co_pc' = IF co_pc = "pattern" THEN "encoded" ELSE "index_back"
    /\ UNCHANGED <<co_k, co_input, co_pattern>>
    /\ UNCHANGED <<detVars, nbVars, clVars,
                   amVars, smVars>>

\* The characters handed to the encoder when nothing has checked them: the
\* four bases in both cases and a character that is no base.
Symbols == {"A", "C", "G", "T", "a", "c", "g", "t", "N", "n"}

\* A call of patternToNumber on any string over these characters.
coRawInit ==
    /\ co_pc = "raw"
    /\ co_k \in 1..MaxCodecK
    /\ co_pattern \in [1..co_k -> Symbols]
    /\ co_input = co_pattern
    /\ co_index = 0

\* patternToNumber(pattern) returns: the function has no raise and get_val
\* has a default for every character.
co_EncodeRaw ==
    /\ co_pc = "raw"
    /\ co_index' = patternToNumber(co_pattern)
    /\ co_pc' = "raw_encoded"
    /\ UNCHANGED <<co_k, co_input, co_pattern>>
    /\ UNCHANGED <<detVars, nbVars, clVars,
                   amVars, smVars>>

(***************************************************************************)
(* A call of neighborhood(pattern, d).                                     *)
(***************************************************************************)
nbInit ==
    /\ nb_pc = "call"
    /\ nb_pattern \in UNION {Patterns(m) : m \in 1..MaxNbK}
    /\ nb_d \in 0..MaxNbD
    /\ nb_result = {}

nb_Call ==
    /\ nb_pc = "call"
    /\ nb_result' = neighborhood(nb_pattern, nb_d)
    /\ nb_pc' = "done"
    /\ UNCHANGED <<nb_pattern, nb_d>>
    /\ UNCHANGED <<detVars, coVars, clVars,
                   amVars, smVars>>

(***************************************************************************)
(* GenerateNeighborhood.py and bookGenerateNeighborhood.py: the two        *)
(* d_neighborhood functions of BA1n.                                       *)
(***************************************************************************)

\* d_neighborhood of GenerateNeighborhood.py: set(generate(0, d)), with the
\* inner generate of neighborhood repeated.
d_neighborhood(pattern, dd) == Range(generate(pattern, 0, dd))

\* hamming_distance of bookGenerateNeighborhood.py: the positions of p at
\* which q differs.
book_hamming_distance(p, q) == Cardinality({j \in 1..Len(p) : p[j] # q[j]})

\* d_neighborhood of bookGenerateNeighborhood.py, called on a non-empty
\* pattern: the empty set for d = 0, the four bases for a pattern of
\* length 1, and otherwise the suffixes of the neighbourhood of
\* pattern[1:], each behind the four bases when it has a mismatch to spare
\* and behind pattern[0] when it has none.
RECURSIVE book_d_neighborhood(_, _)
book_d_neighborhood(pattern, dd) ==
    IF dd = 0 THEN {}
    ELSE IF Len(pattern) = 1 THEN {<<"A">>, <<"C">>, <<"G">>, <<"T">>}
    ELSE UNION {IF book_hamming_distance(s, Tail(pattern)) < dd
                THEN {<<b>> \o s : b \in {"A", "C", "G", "T"}}
                ELSE {<<pattern[1]>> \o s} :
                   s \in book_d_neighborhood(Tail(pattern), dd)}

\* A call of the book-style d_neighborhood on a non-empty pattern.
nbBookInit ==
    /\ nb_pc = "book"
    /\ nb_pattern \in UNION {Patterns(m) : m \in 1..MaxNbK}
    /\ nb_d \in 0..MaxNbD
    /\ nb_result = {}

nb_BookCall ==
    /\ nb_pc = "book"
    /\ nb_result' = book_d_neighborhood(nb_pattern, nb_d)
    /\ nb_pc' = "book_done"
    /\ UNCHANGED <<nb_pattern, nb_d>>
    /\ UNCHANGED <<detVars, coVars, clVars,
                   amVars, smVars>>

(***************************************************************************)
(* ApproxPattMatching.py: approximate_pattern_matching, step by step.      *)
(***************************************************************************)

\* hamming_distance of ApproxPattMatching.py: the positions of p at which q
\* differs.
match_hamming_distance(p, q) == Cardinality({j \in 1..Len(p) : p[j] # q[j]})

\* A call on a non-empty pattern; line 27-28: the empty list.
amInit ==
    /\ am_pc = "loop"
    /\ am_pattern \in UNION {Patterns(m) : m \in 1..MaxMatchK}
    /\ dna_seq \in Strings(MaxMatchN)
    /\ am_d \in 0..MaxMatchD
    /\ am_i = 0
    /\ d_match_ind = <<>>

\* Lines 29-32: one iteration of the loop over range(len(dna_seq) -
\* patt_length).
am_Step ==
    /\ am_pc = "loop"
    /\ am_i < Len(dna_seq) - Len(am_pattern)
    /\ LET h_distance ==
              match_hamming_distance(am_pattern,
                  Slice(dna_seq, am_i, am_i + Len(am_pattern)))
       IN  d_match_ind' = IF h_distance <= am_d
                          THEN Append(d_match_ind, am_i)
                          ELSE d_match_ind
    /\ am_i' = am_i + 1
    /\ UNCHANGED <<am_pc, am_pattern, dna_seq, am_d>>
    /\ UNCHANGED <<detVars, coVars, nbVars, clVars, smVars>>

\* Line 34: the loop ends and the list is returned.
am_Return ==
    /\ am_pc = "loop"
    /\ am_i >= Len(dna_seq) - Len(am_pattern)
    /\ am_pc' = "done"
    /\ UNCHANGED <<am_pattern, dna_seq, am_d, am_i, d_match_ind>>
    /\ UNCHANGED <<detVars, coVars, nbVars, clVars, smVars>>

(***************************************************************************)
(* ClumpFinder_RC_Mismatches.py: clumpFinder_with_mismatches_and_rc, step  *)
(* by step.  The script repeats reverse_complement and neighborhood of     *)
(* bio_utils.py and inlines add_kmer and remove_kmer in its two loops.     *)
(***************************************************************************)

\* Lines 7-9 of the script: pattern.translate(tabla)[::-1]
sm_reverse_complement(pattern) ==
    [j \in 1..Len(pattern) |-> tabla(pattern[Len(pattern) + 1 - j])]

\* Lines 11-30 of the script: set(generate(0, d))
sm_neighborhood(pattern, dd) == Range(generate(pattern, 0, dd))

\* Lines 41-44: memo_neighborhood after get_neighborhood(kmer).
get_neighborhood(memo, kmer, dd) ==
    IF kmer \in DOMAIN memo
    THEN memo
    ELSE memo @@ (kmer :> sm_neighborhood(kmer, dd))

\* Lines 46-51: memo_neighborhood after get_all_variants(kmer), which asks
\* for the neighbourhood of kmer and, with use_rc, of its reverse
\* complement.
sm_memo_after(memo, kmer, dd, rc) ==
    IF rc
    THEN get_neighborhood(get_neighborhood(memo, kmer, dd),
                          sm_reverse_complement(kmer), dd)
    ELSE get_neighborhood(memo, kmer, dd)

\* Lines 46-51: the set get_all_variants(kmer) returns, memo being the dict
\* its calls of get_neighborhood leave behind.  The set is a copy, so the
\* update leaves the memoised sets as they are.
get_all_variants_no_rc(memo, kmer, rc) == memo[kmer]

get_all_variants(memo, kmer, rc) ==
    memo[kmer]
        \cup (IF rc THEN memo[sm_reverse_complement(kmer)] ELSE {})

\* Lines 33-39: the length check and the empty dicts.
sm_Call ==
    /\ sm_pc = "call"
    /\ IF n < L
       THEN /\ sm_pc' = "done"
            /\ sm_result' = {}
            /\ UNCHANGED <<sm_i, sm_memo, sm_freq_map, sm_clumps, sm_error>>
       ELSE /\ sm_pc' = "init"
            /\ sm_i' = 0
            /\ sm_memo' = EmptyDict
            /\ sm_freq_map' = EmptyDict
            /\ sm_clumps' = EmptyDict
            /\ UNCHANGED <<sm_result, sm_error>>
    /\ UNCHANGED <<detVars, coVars, nbVars, clVars, amVars>>

\* Lines 54-73: one iteration of the loop over the first window.
sm_InitAdd ==
    /\ sm_pc = "init"
    /\ sm_i < L - k + 1
    /\ LET kmer == Slice(sequence, sm_i, sm_i + k)
       IN  \E memo \in {sm_memo_after(sm_memo, kmer, d, use_rc)} :
           \E st \in {add_kmer(sm_freq_map, sm_clumps,
                                get_all_variants(memo, kmer, use_rc),
                                kmer, sm_i, t)} :
              /\ sm_freq_map' = st.freq_map
              /\ sm_clumps' = st.clumps
              /\ sm_memo' = memo
    /\ sm_i' = sm_i + 1
    /\ UNCHANGED <<sm_pc, sm_result, sm_error>>
    /\ UNCHANGED <<detVars, coVars, nbVars, clVars, amVars>>

\* The loop over the first window ends; the slide loop starts at i = 1.
sm_InitEnd ==
    /\ sm_pc = "init"
    /\ sm_i >= L - k + 1
    /\ sm_pc' = "slide"
    /\ sm_i' = 1
    /\ UNCHANGED <<sm_memo, sm_freq_map, sm_clumps, sm_result, sm_error>>
    /\ UNCHANGED <<detVars, coVars, nbVars, clVars, amVars>>

\* Lines 76-89: the k-mer leaving at i - 1.
sm_Remove ==
    /\ sm_pc = "slide"
    /\ sm_i < n - L + 1
    /\ LET kmer_out == Slice(sequence, sm_i - 1, sm_i - 1 + k)
       IN  \E memo \in {sm_memo_after(sm_memo, kmer_out, d, use_rc)} :
           \E variants \in {get_all_variants(memo, kmer_out, use_rc)} :
           \E failures \in {remove_failures(sm_freq_map, variants)} :
              /\ sm_memo' = memo
              /\ IF failures = {}
                 THEN /\ sm_freq_map' = remove_kmer(sm_freq_map, variants)
                      /\ sm_pc' = "add"
                      /\ sm_error' = sm_error
                 ELSE /\ sm_freq_map' = sm_freq_map
                      /\ sm_pc' = "error"
                      /\ sm_error' \in failures
    /\ UNCHANGED <<sm_i, sm_clumps, sm_result>>
    /\ UNCHANGED <<detVars, coVars, nbVars, clVars, amVars>>

\* Lines 77-78 and 91-108: the k-mer entering at i + L - k.
sm_Add ==
    /\ sm_pc = "add"
    /\ LET idx_in == sm_i + L - k
           kmer_in == Slice(sequence, sm_i + L - k, sm_i + L)
       IN  \E memo \in {sm_memo_after(sm_memo, kmer_in, d, use_rc)} :
           \E st \in {add_kmer(sm_freq_map, sm_clumps,
                                get_all_variants(memo, kmer_in, use_rc),
                                kmer_in, idx_in, t)} :
              /\ sm_freq_map' = st.freq_map
              /\ sm_clumps' = st.clumps
              /\ sm_memo' = memo
    /\ sm_i' = sm_i + 1
    /\ sm_pc' = "slide"
    /\ UNCHANGED <<sm_result, sm_error>>
    /\ UNCHANGED <<detVars, coVars, nbVars, clVars, amVars>>

\* Line 110: the slide loop ends and the records are returned.
sm_Return ==
    /\ sm_pc = "slide"
    /\ sm_i >= n - L + 1
    /\ sm_pc' = "done"
    /\ sm_result' = clump_values(sm_clumps)
    /\ UNCHANGED <<sm_i, sm_memo, sm_freq_map, sm_clumps, sm_error>>
    /\ UNCHANGED <<detVars, coVars, nbVars, clVars, amVars>>

\* Before the call.
smInit ==
    /\ sm_pc = "call"
    /\ sm_i = 0
    /\ sm_memo = EmptyDict
    /\ sm_freq_map = EmptyDict
    /\ sm_clumps = EmptyDict
    /\ sm_result = {}
    /\ sm_error = "none"

(***************************************************************************)
(* bio_utils.py: clean_clump_noise.                                        *)
(***************************************************************************)

\* The sort key of line 303, (x[2], x[2] + x[3]), compared as tuples.
key_less(x, y) ==
    \/ x[3] < y[3]
    \/ x[3] = y[3] /\ x[3] + x[4] < y[3] + y[4]

\* list.sort(key=..., reverse=True): a stable sort, records with equal keys
\* keep their order.  x is inserted before the first record of smaller key.
RECURSIVE insert_by_key_desc(_, _)
insert_by_key_desc(x, sorted) ==
    IF sorted = <<>>
    THEN <<x>>
    ELSE IF key_less(Head(sorted), x)
         THEN <<x>> \o sorted
         ELSE <<Head(sorted)>> \o insert_by_key_desc(x, Tail(sorted))

RECURSIVE sort_by_key_desc_from(_, _, _)
sort_by_key_desc_from(lst, j, sorted) ==
    IF j > Len(lst)
    THEN sorted
    ELSE sort_by_key_desc_from(lst, j + 1, insert_by_key_desc(lst[j], sorted))

sort_by_key_desc_unsorted(lst) == lst

sort_by_key_desc(lst) == sort_by_key_desc_from(lst, 1, <<>>)

\* sorted(result, key=lambda x: x[1]): stable, ascending by position.
RECURSIVE insert_by_pos(_, _)
insert_by_pos(x, sorted) ==
    IF sorted = <<>>
    THEN <<x>>
    ELSE IF x[2] < Head(sorted)[2]
         THEN <<x>> \o sorted
         ELSE <<Head(sorted)>> \o insert_by_pos(x, Tail(sorted))

RECURSIVE sort_by_pos_from(_, _, _)
sort_by_pos_from(lst, j, sorted) ==
    IF j > Len(lst)
    THEN sorted
    ELSE sort_by_pos_from(lst, j + 1, insert_by_pos(lst[j], sorted))

sorted_by_pos_unsorted(lst) == lst

sorted_by_pos(lst) == sort_by_pos_from(lst, 1, <<>>)

\* Lines 308-311: the entries farther than dd from best, in their order.
RECURSIVE far_from_or_at(_, _, _)
far_from_or_at(lst, best, dd) ==
    IF lst = <<>>
    THEN <<>>
    ELSE (IF hamming_distance(Head(lst)[1], best[1]) >= dd
          THEN <<Head(lst)>> ELSE <<>>)
         \o far_from_or_at(Tail(lst), best, dd)

RECURSIVE far_from(_, _, _)
far_from(lst, best, dd) ==
    IF lst = <<>>
    THEN <<>>
    ELSE (IF hamming_distance(Head(lst)[1], best[1]) > dd
          THEN <<Head(lst)>> ELSE <<>>)
         \o far_from(Tail(lst), best, dd)

\* Lines 303-311: one round of the loop, on the pair (remaining, result).
clean_round_pop_last(rem, res, dd) ==
    LET sorted == sort_by_key_desc(rem)
        best == sorted[Len(sorted)]
    IN  [remaining |-> far_from(SubSeq(sorted, 1, Len(sorted) - 1), best, dd),
         result    |-> Append(res, best)]

clean_round(rem, res, dd) ==
    LET sorted == sort_by_key_desc(rem)
        best == Head(sorted)
    IN  [remaining |-> far_from(Tail(sorted), best, dd),
         result    |-> Append(res, best)]

\* The records handed to clean_clump_noise: tuples
\* (pattern, position, exact count, variant count) with patterns of one
\* length, at pairwise distances 1 and 2.
CleanPatterns == {<<"A", "A">>, <<"A", "C">>, <<"C", "C">>}

\* The position and the two counts of a record.
CleanFields == (0..MaxPos) \X (0..MaxCount) \X (0..MaxCount)

\* The ways to give m records m different patterns, as the values of the
\* dictionary find_clumps returns have them: one record per flagged pattern.
DistinctPatterns(m) ==
    {ps \in [1..m -> CleanPatterns] : \A a, b \in 1..m : a # b => ps[a] # ps[b]}

clInit ==
    /\ cl_pc = "call"
    /\ \E m \in 0..Min(MaxRecs, Cardinality(CleanPatterns)) :
       \E ps \in DistinctPatterns(m) :
       \E fs \in [1..m -> CleanFields] :
          clump_results = [j \in 1..m |-> <<ps[j], fs[j][1], fs[j][2], fs[j][3]>>]
    /\ cl_d \in 0..MaxCleanD
    /\ remaining = <<>>
    /\ cl_result = <<>>
    /\ cl_returned = <<>>
    /\ cl_first = <<>>
    /\ cl_pass = 1

\* Any list of records of one pattern length: the same pattern may occur
\* more than once, with any counts; the positions fall along the list, so
\* the order of the list is not the order of the positions.
AnyCounts == {0, 1} \X {0, 1}

clAnyInit ==
    /\ cl_pc = "call"
    /\ \E m \in 0..MaxAnyRecs :
       \E ps \in [1..m -> CleanPatterns] :
       \E fs \in [1..m -> AnyCounts] :
          clump_results = [j \in 1..m |-> <<ps[j], m - j, fs[j][1], fs[j][2]>>]
    /\ cl_d \in 0..MaxCleanD
    /\ remaining = <<>>
    /\ cl_result = <<>>
    /\ cl_returned = <<>>
    /\ cl_first = <<>>
    /\ cl_pass = 1

\* Lines 298-299: the copy of the argument and the empty result.
cl_Call ==
    /\ cl_pc = "call"
    /\ remaining' = clump_results
    /\ cl_result' = <<>>
    /\ cl_pc' = "loop"
    /\ UNCHANGED <<clump_results, cl_d, cl_returned, cl_first, cl_pass>>
    /\ UNCHANGED <<detVars, coVars, nbVars, amVars, smVars>>

\* Lines 301-311: one round of the while loop.
cl_Round ==
    /\ cl_pc = "loop"
    /\ remaining # <<>>
    /\ LET st == clean_round(remaining, cl_result, cl_d)
       IN  /\ remaining' = st.remaining
           /\ cl_result' = st.result
    /\ UNCHANGED <<cl_pc, clump_results, cl_d, cl_returned, cl_first, cl_pass>>
    /\ UNCHANGED <<detVars, coVars, nbVars, amVars, smVars>>

\* Line 313: the loop ends and the result is returned sorted by position.
cl_Return ==
    /\ cl_pc = "loop"
    /\ remaining = <<>>
    /\ cl_returned' = sorted_by_pos(cl_result)
    /\ cl_pc' = "returned"
    /\ UNCHANGED <<clump_results, cl_d, remaining, cl_result, cl_first, cl_pass>>
    /\ UNCHANGED <<detVars, coVars, nbVars, amVars, smVars>>

\* The function is applied to its own output, with the same d.
cl_Again ==
    /\ cl_pc = "returned"
    /\ cl_pass = 1
    /\ cl_first' = cl_returned
    /\ clump_results' = cl_returned
    /\ cl_pass' = 2
    /\ cl_pc' = "call"
    /\ UNCHANGED <<cl_d, remaining, cl_result, cl_returned>>
    /\ UNCHANGED <<detVars, coVars, nbVars, amVars, smVars>>

(***************************************************************************)
(* Specifications.                                                         *)
(***************************************************************************)
vars == <<sequence, k, L, t, d, use_rc,
          pc, i, memo_neighborhood, freq_map, clumps, result, error,
          xpc, xi, text, ci, current_idx, frecuencias, clump_marks, mask,
          index_start, index_end, xresult,
          co_pc, co_k, co_input, co_index, co_pattern,
          nb_pc, nb_pattern, nb_d, nb_result,
          cl_pc, clump_results, cl_d, remaining, cl_result, cl_returned,
          cl_first, cl_pass,
          pf_pc, pf_i, kmers_positions, pf_keys, pf_j, pf_clumps,
          run, first_result, first_xresult,
          am_pc, am_pattern, dna_seq, am_d, am_i, d_match_ind,
          sm_pc, sm_i, sm_memo, sm_freq_map, sm_clumps, sm_result, sm_error>>

\* A detection call: find_clumps, then clumpFinder on the same input.
Init == InputInit /\ fcInit /\ exInit /\ pfIdle /\ rrIdle
        /\ coIdle /\ nbIdle /\ clIdle
        /\ amIdle /\ smIdle

Next ==
    \/ fc_Call \/ fc_InitAdd \/ fc_InitEnd \/ fc_Remove \/ fc_Add \/ fc_Return
    \/ ex_Call \/ ex_CfrStep \/ ex_CfrReturn \/ ex_Marks \/ ex_Slide \/ ex_Return

Spec == Init /\ [][Next]_vars

\* The codec round trips.
CodecInit == coInit /\ detIdle /\ nbIdle /\ clIdle
        /\ amIdle /\ smIdle

CodecNext == co_Decode \/ co_Encode

SpecCodec == CodecInit /\ [][CodecNext]_vars

\* The calls of neighborhood.
NeighborhoodInit == nbInit /\ detIdle /\ coIdle /\ clIdle
        /\ amIdle /\ smIdle

NeighborhoodNext == nb_Call

SpecNeighborhood == NeighborhoodInit /\ [][NeighborhoodNext]_vars

\* clean_clump_noise applied twice.
CleanInit == clInit /\ detIdle /\ coIdle /\ nbIdle
        /\ amIdle /\ smIdle

CleanNext == cl_Call \/ cl_Round \/ cl_Return \/ cl_Again

SpecClean == CleanInit /\ [][CleanNext]_vars

\* clean_clump_noise applied once to any list of records.
CleanAnyInit == clAnyInit /\ detIdle /\ coIdle /\ nbIdle
        /\ amIdle /\ smIdle

CleanAnyNext == cl_Call \/ cl_Round \/ cl_Return

SpecCleanAny == CleanAnyInit /\ [][CleanAnyNext]_vars

\* The calls of the book-style d_neighborhood.
BookInit == nbBookInit /\ detIdle /\ coIdle /\ clIdle
        /\ amIdle /\ smIdle

SpecBook == BookInit /\ [][nb_BookCall]_vars

\* find_clumps, then clumpFinder_with_mismatches_and_rc on the same
\* arguments: the script's function is called once the library's has
\* finished.
StandaloneInit == BothInputInit /\ fcInit /\ exInit /\ smInit /\ pfIdle /\ rrIdle
        /\ coIdle /\ nbIdle /\ clIdle /\ amIdle

\* The call of the script's function, made once find_clumps has finished.
sm_CallAfterLibrary ==
    /\ pc \in {"done", "error"}
    /\ sm_Call

StandaloneNext ==
    \/ fc_Call \/ fc_InitAdd \/ fc_InitEnd \/ fc_Remove \/ fc_Add \/ fc_Return
    \/ sm_CallAfterLibrary
    \/ sm_InitAdd \/ sm_InitEnd \/ sm_Remove \/ sm_Add \/ sm_Return

SpecStandalone == StandaloneInit /\ [][StandaloneNext]_vars

\* The calls of approximate_pattern_matching.
MatchInit == amInit /\ detIdle /\ coIdle /\ nbIdle /\ clIdle /\ smIdle

MatchNext == am_Step \/ am_Return

SpecMatch == MatchInit /\ [][MatchNext]_vars

\* patternToNumber called on any string.
SymbolsInit == coRawInit /\ detIdle /\ nbIdle /\ clIdle
        /\ amIdle /\ smIdle

SpecSymbols == SymbolsInit /\ [][co_EncodeRaw]_vars

\* The detectors on a sequence of mixed case and on its uppercase form.
CaseInit == CaseInputInit /\ fcInit /\ exInit /\ pfIdle
            /\ coIdle /\ nbIdle /\ clIdle
        /\ amIdle /\ smIdle

CaseNext == fcNext \/ exNext \/ det_Again

SpecCase == CaseInit /\ [][CaseNext]_vars

\* find_clumps called with any integer parameters.
ParamsInit == ParamInit /\ fcInit /\ exInit /\ pfIdle /\ rrIdle
        /\ coIdle /\ nbIdle /\ clIdle
        /\ amIdle /\ smIdle

SpecParams == ParamsInit /\ [][fcNext]_vars

\* The example of Rosalind BA1E.  The window is the whole sequence, so no
\* detector slides.
ScenarioInit == ScenarioInputInit /\ fcInit /\ exInit /\ pfInit /\ rrIdle
                /\ coIdle /\ nbIdle /\ clIdle
        /\ amIdle /\ smIdle

ScenarioNext ==
    \/ fc_Call \/ fc_InitAdd \/ fc_InitEnd \/ fc_Return
    \/ ex_Call \/ ex_CfrStep \/ ex_CfrReturn \/ ex_Marks \/ ex_Return
    \/ pf_Call \/ pf_TableStep \/ pf_TableReturn \/ pf_Item \/ pf_Return

SpecScenario == ScenarioInit /\ [][ScenarioNext]_vars

\* find_clumps called with the threshold 0.
DegenerateInit == DegenerateInputInit /\ fcInit /\ exInit /\ pfIdle /\ rrIdle
                  /\ coIdle /\ nbIdle /\ clIdle
        /\ amIdle /\ smIdle

SpecDegenerate == DegenerateInit /\ [][fcNext]_vars

\* A detection call with the threshold 1: the bookkeeping of the window.
WindowInit == WindowInputInit /\ fcInit /\ exInit /\ pfIdle /\ rrIdle
              /\ coIdle /\ nbIdle /\ clIdle
        /\ amIdle /\ smIdle

SpecWindow == WindowInit /\ [][Next]_vars

\* The three detectors in exact mode, one after the other: find_clumps of
\* bio_utils.py with d = 0 and use_rc = False, clumpFinder, find_clumps of
\* ClumpFinder.py.
ExactInit == ExactInputInit /\ fcInit /\ exInit /\ pfInit /\ rrIdle
             /\ coIdle /\ nbIdle /\ clIdle
        /\ amIdle /\ smIdle

ExactNext == fcNext \/ exNext \/ pfNext

SpecExact == ExactInit /\ [][ExactNext]_vars

\* find_clumps alone, on the inputs of a detection call.
SpecFindClumps == Init /\ [][fcNext]_vars

(***************************************************************************)
(* Reference definitions used by the properties.                           *)
(***************************************************************************)

\* The k-mer of the sequence that starts at position p (0-based).
KmerAt(p) == SubSeq(sequence, p + 1, p + k)

\* The k-mer at p counts for v: it is within distance d of v, or, with the
\* reverse complement switched on, its reverse complement is.
CountsFor(v, p) ==
    \/ hamming_distance(KmerAt(p), v) <= d
    \/ use_rc /\ hamming_distance(reverse_complement(KmerAt(p)), v) <= d

\* The start positions in the window that starts at w which count for v.
WindowHits(v, w) == {p \in w..(w + L - k) : CountsFor(v, p)}

\* The brute-force clump set of the approximate detector.
BruteForceClumps ==
    {v \in Patterns(k) : \E w \in 0..(n - L) : Cardinality(WindowHits(v, w)) >= t}

\* The exact occurrences of v in the window that starts at w.
ExactHits(v, w) == {p \in w..(w + L - k) : KmerAt(p) = v}

\* The brute-force clump set of the exact counter.
BruteForceExactClumps ==
    {v \in Patterns(k) : \E w \in 0..(n - L) : Cardinality(ExactHits(v, w)) >= t}

\* The patterns of a set of records.
PatternsOf(records) == {r[1] : r \in records}

\* exact + var of a variant, 0 for a variant without entry.
Count(fm, v) == IF v \in DOMAIN fm THEN fm[v].exact + fm[v].var ELSE 0

\* The least element of a non-empty set of integers.
Least(S) == CHOOSE x \in S : \A y \in S : x <= y

\* C(m, r) and the size of the Hamming ball of radius r around a pattern of
\* length m over four symbols.
RECURSIVE Binomial(_, _)
Binomial(m, r) ==
    IF r = 0 THEN 1
    ELSE IF r > m THEN 0
    ELSE Binomial(m - 1, r - 1) + Binomial(m - 1, r)

RECURSIVE BallSize(_, _)
BallSize(m, r) ==
    IF r < 0 THEN 0 ELSE (Binomial(m, r) * (3 ^ r)) + BallSize(m, r - 1)

(***************************************************************************)
(* Properties.                                                             *)
(***************************************************************************)

\* C1: when find_clumps has returned, the set of patterns of its records is
\* the brute-force set: every k-length string v for which some window start
\* w in [0, n-L] has at least t start positions in [w, w+L-k] whose k-mer (or,
\* with use_rc, whose reverse complement) is within distance d of v, each
\* position counted once.
C1_ApproxMatchesBruteForce ==
    pc = "done" => PatternsOf(result) = BruteForceClumps

\* C1 witness: a run with mismatches and reverse complement that slid the
\* window and reports some patterns but not all.
C1_Witness ==
    /\ pc = "done" /\ n > L /\ d >= 1 /\ use_rc /\ t >= 2
    /\ result # {}
    /\ PatternsOf(result) # Patterns(k)
    /\ \E r \in result : r[2] >= 1

\* C2: when clumpFinder has returned, the set of its patterns is the set of
\* k-mers whose exact count is at least t in at least one window [w, w+L),
\* w in [0, n-L], found by counting every k-mer in every window.
C2_ExactMatchesBruteForce ==
    xpc = "done" => Range(xresult) = BruteForceExactClumps

\* C2 witness: a run that reports a k-mer that does not reach t in the first
\* window, and leaves out a k-mer that occurs in the sequence.
C2_Witness ==
    /\ xpc = "done" /\ n > L /\ t >= 2
    /\ \E v \in Range(xresult) : Cardinality(ExactHits(v, 0)) < t
    /\ \E p \in 0..(n - k) : KmerAt(p) \notin Range(xresult)

\* C3: a record, once written, keeps its four fields and is never removed;
\* a record is written only by an add step, for a variant whose count that
\* step brought from below t to at least t, and no variant is left without
\* record while its count is at least t; the records returned are the
\* records written, one per flagged pattern.
C3_RecordOnceAndImmutable ==
    [][/\ \A v \in DOMAIN clumps :
             v \in DOMAIN clumps' /\ clumps'[v] = clumps[v]
       /\ \A v \in DOMAIN clumps' \ DOMAIN clumps :
             /\ pc \in {"init", "add"}
             /\ Count(freq_map, v) < t
             /\ Count(freq_map', v) >= t
       /\ \A v \in DOMAIN freq_map' :
             Count(freq_map', v) >= t => v \in DOMAIN clumps'
       /\ (pc = "slide" /\ pc' = "done") =>
             /\ PatternsOf(result') = DOMAIN clumps
             /\ \A r \in result' : clumps[r[1]] = r
             /\ Cardinality(result') = Cardinality(DOMAIN clumps)
      ]_vars

\* C3 witness: with a window of exactly one k-mer every queue is empty after
\* each removal, so a flagged pattern whose only live contribution starts two
\* or more positions after its recorded position has dropped to count 0 and
\* reached t = 1 again, and its record still shows the first crossing.
C3_Witness ==
    /\ pc = "slide" /\ L = k /\ t = 1
    /\ \E v \in DOMAIN clumps :
          /\ Count(freq_map, v) = 1
          /\ Head(freq_map[v].q)[1] >= clumps[v][2] + 2

\* C4: when an add step writes the record of v, the recorded position is the
\* front of v's queue, which is the smallest start position of the current
\* window whose k-mer counts for v; it is the position just added only when
\* the queue holds a single entry; and every entry of the queue starts in
\* [p, p+L-k].
C4_FirstPositionIsQueueFront ==
    [][\A v \in DOMAIN clumps' \ DOMAIN clumps :
          LET window_start == IF pc = "init" THEN 0 ELSE i
              added == IF pc = "init" THEN i ELSE i + L - k
              q == freq_map'[v].q
              p == clumps'[v][2]
          IN  /\ p = Head(q)[1]
              /\ p = Least(WindowHits(v, window_start))
              /\ (p = added) <=> (Len(q) = 1)
              /\ \A j \in 1..Len(q) : p <= q[j][1] /\ q[j][1] <= p + L - k
      ]_vars

\* C4 witness: after a slide step whose entering k-mer made v cross the
\* threshold with several live entries: the record carries the front of the
\* queue, which is neither position 0 nor the position just added.
C4_Witness ==
    /\ pc = "slide" /\ i >= 2 /\ t >= 2
    /\ \E v \in DOMAIN clumps :
          LET e == freq_map[v]
          IN  /\ Len(e.q) = t
              /\ e.q[Len(e.q)][1] = (i - 1) + L - k
              /\ Head(e.q)[1] >= 1
              /\ clumps[v] = <<v, Head(e.q)[1], e.exact, e.var>>

\* C5: the rolling index equals the full encoding of the substring it stands
\* for: current_idx in ComputeFrequenciesRolling is the index of the k-mer at
\* the position last visited, and between slide steps of clumpFinder
\* index_start and index_end are the indices of the k-mers at the left and
\* right edge of the window; for k = 1 the mask is 1.
C5_RollingIndexIdentity ==
    /\ xpc \in {"cfr", "marks"} /\ Len(text) >= k =>
          current_idx = patternToNumber(Slice(text, ci - 1, ci - 1 + k))
    /\ xpc = "slide" =>
          /\ index_start = patternToNumber(Slice(sequence, xi - 1, xi - 1 + k))
          /\ index_end =
                patternToNumber(Slice(sequence, xi - 1 + L - k, xi - 1 + L))
    /\ xpc \in {"cfr", "marks", "slide"} /\ k = 1 => mask = 1

\* C5 witness: both loops have rolled at least once on 2-mers, and the two
\* edges of the window hold different k-mers.
C5_Witness ==
    /\ xpc = "slide" /\ xi >= 2 /\ ci >= 2 /\ k >= 2
    /\ index_start # index_end
    /\ index_start > 0
    /\ current_idx > 0

\* C6: decoding an index in [0, 4^k) and encoding the pattern gives the index
\* back, encoding a k-length pattern and decoding the index gives the pattern
\* back, and the encoding of a one-letter pattern is the rank of the letter
\* in A, C, G, T.
C6_CodecRoundTrip ==
    /\ co_pc = "index_back" => co_index = co_input
    /\ co_pc = "pattern_back" => co_pattern = co_input
    /\ co_pc = "decoded" => co_pattern \in Patterns(co_k)
    /\ co_pc = "encoded" => co_index \in 0..((4 ^ co_k) - 1)
    /\ co_pc = "encoded" /\ co_k = 1 => Bases[co_index + 1] = co_pattern[1]

\* C6 witness: a pattern of several letters, not all A, went through both
\* conversions.
C6_Witness ==
    /\ co_pc = "pattern_back" /\ co_k >= 2 /\ co_index >= 5
    /\ co_pattern[1] # co_pattern[2]

\* C7: neighborhood(p, d) is the set of all strings of the length of p within
\* Hamming distance d of p; it contains p, has sum_{i <= min(d,k)} C(k,i) 3^i
\* members, and is {p} for d = 0.
C7_NeighborhoodIsHammingBall ==
    nb_pc = "done" =>
        /\ nb_result =
              {s \in Patterns(Len(nb_pattern)) :
                  Cardinality({j \in 1..Len(nb_pattern) : s[j] # nb_pattern[j]})
                      <= nb_d}
        /\ nb_pattern \in nb_result
        /\ Cardinality(nb_result) =
              BallSize(Len(nb_pattern), Min(nb_d, Len(nb_pattern)))
        /\ nb_d = 0 => nb_result = {nb_pattern}

\* C7 witness: the neighbourhood of AAA for d = 1 has its 10 members.
C7_Witness ==
    /\ nb_pc = "done" /\ nb_pattern = <<"A", "A", "A">> /\ nb_d = 1
    /\ Cardinality(nb_result) = 10
    /\ <<"A", "T", "A">> \in nb_result

\* C8: for a sequence shorter than L both detectors return an empty result,
\* raise nothing, and build none of their window state.
C8_ShortSequenceEmptyResult ==
    n < L =>
        /\ pc \in {"call", "done"}
        /\ error = "none"
        /\ result = {}
        /\ memo_neighborhood = EmptyDict
        /\ freq_map = EmptyDict
        /\ clumps = EmptyDict
        /\ i = 0
        /\ xpc \in {"wait", "done"}
        /\ xresult = <<>>
        /\ frecuencias = <<>>
        /\ clump_marks = <<>>
        /\ xi = 0
        /\ ci = 0

\* C8 witness: both detectors have returned on a non-empty sequence shorter
\* than the window.
C8_Witness ==
    /\ pc = "done" /\ xpc = "done" /\ n < L /\ n >= 1

\* C9: the list returned by the second application of clean_clump_noise is
\* the list returned by the first, record by record.
C9_CleanIdempotent ==
    cl_pc = "returned" /\ cl_pass = 2 => cl_returned = cl_first

\* C9 witness: the second application has returned a list that holds two
\* records of different pattern with the same position and the same key.
C9_Witness ==
    /\ cl_pc = "returned" /\ cl_pass = 2
    /\ \E a, b \in 1..Len(cl_first) :
          /\ a < b
          /\ cl_first[a][1] # cl_first[b][1]
          /\ cl_first[a][2] = cl_first[b][2]
          /\ cl_first[a][3] = cl_first[b][3]
          /\ cl_first[a][4] = cl_first[b][4]

\* C10: in the returned list the position of every record is at most the
\* position of the record after it, and the list holds the selected
\* representatives.
C10_CleanOrderedByPosition ==
    cl_pc = "returned" =>
        /\ \A j \in 1..(Len(cl_returned) - 1) :
              cl_returned[j][2] <= cl_returned[j + 1][2]
        /\ Len(cl_returned) = Len(cl_result)
        /\ Range(cl_returned) = Range(cl_result)

\* C10 witness: the representatives were selected in an order that is not
\* the order of their positions.
C10_Witness ==
    /\ cl_pc = "returned" /\ cl_pass = 1
    /\ Len(cl_result) >= 2
    /\ \E j \in 1..(Len(cl_result) - 1) : cl_result[j][2] > cl_result[j + 1][2]

\* The parameters the specification rejects.
InvalidParameters == k <= 0 \/ L < k \/ t < 1 \/ d < 0

\* C11: a call with k <= 0, L < k, t < 1 or d < 0 ends in an
\* InvalidParameters error before any window is initialised or any slide
\* step runs: it never leaves the call other than by that error, returns no
\* result list and builds no frequency or variant state.
C11_InvalidParametersRejected ==
    InvalidParameters =>
        /\ pc \in {"call", "error"}
        /\ pc = "error" => error = "InvalidParameters"
        /\ result = {}
        /\ memo_neighborhood = EmptyDict
        /\ freq_map = EmptyDict
        /\ clumps = EmptyDict

\* The pattern holds a character that is no base in either case.
HasInvalidSymbol(pattern) ==
    \E j \in 1..Len(pattern) : upper(pattern[j]) \notin Alphabet

\* C12: encoding a pattern that holds a character outside {A,C,G,T}, in
\* either case, fails and yields no index: the encoder does not return, and
\* so never hands back the index of a valid k-mer.
C12_InvalidSymbolRejected ==
    co_pc \in {"raw", "raw_encoded"} /\ HasInvalidSymbol(co_input) =>
        /\ co_pc # "raw_encoded"
        /\ co_pc = "raw_encoded" => co_index \notin 0..((4 ^ co_k) - 1)

\* C13: on a sequence over {A,C,G,T,a,c,g,t} both detectors return what they
\* return on its uppercase form, and every pattern they report is in
\* uppercase.
C13_CaseInsensitive ==
    /\ run = 2 /\ pc = "done" => result = first_result
    /\ run = 2 /\ xpc = "done" => xresult = first_xresult
    /\ pc = "done" => \A r \in result : r[1] \in Patterns(k)
    /\ xpc = "done" => \A j \in 1..Len(xresult) : xresult[j] \in Patterns(k)

\* The result set of the Rosalind BA1E example.
ScenarioClumps == {<<"C", "G", "A", "C", "A">>, <<"G", "A", "A", "G", "A">>}

\* C14: for the sequence of the Rosalind BA1E example with k = 5, L = 75 and
\* t = 4, the exact clump finder returns exactly the set {CGACA, GAAGA}:
\* clumpFinder of BetterClumpFinder.py and find_clumps of ClumpFinder.py
\* each return these two patterns, once each, and nothing else.
C14_ScenarioResult ==
    /\ xpc = "done" => /\ Range(xresult) = ScenarioClumps
                       /\ Len(xresult) = Cardinality(ScenarioClumps)
    /\ pf_pc = "done" => /\ Range(pf_clumps) = ScenarioClumps
                         /\ Len(pf_clumps) = Cardinality(ScenarioClumps)
    /\ pf_pc # "error"

C14_Witness ==
    /\ sequence = ScenarioSequence /\ k = 5 /\ L = 75 /\ t = 4
    /\ xpc = "done" /\ pf_pc = "done"
    /\ Range(xresult) = ScenarioClumps
    /\ Range(pf_clumps) = ScenarioClumps

\* The least start position whose k-mer counts for v.
FirstTouch(v) == Least({p \in 0..(n - k) : CountsFor(v, p)})

\* C15: with the degenerate threshold t = 0, find_clumps records every
\* variant at the first add step that touches it: a variant has a record as
\* soon as it has an entry, the record carries the position of that first
\* add step and the counters as they were after it (one occurrence); when
\* the scan has run (n >= L) every k-mer present in the sequence has a
\* record, and the record of any variant of the k-mer at position 0 has
\* first position 0.
C15_DegenerateThreshold ==
    /\ DOMAIN clumps = DOMAIN freq_map
    /\ \A v \in DOMAIN clumps :
          /\ clumps[v][1] = v
          /\ clumps[v][2] = FirstTouch(v)
          /\ clumps[v][3] + clumps[v][4] = 1
    /\ pc = "done" /\ n >= L =>
          /\ \A p \in 0..(n - k) : \E r \in result : r[1] = KmerAt(p)
          /\ \A v \in Patterns(k) :
                CountsFor(v, 0) => \E r \in result : r[1] = v /\ r[2] = 0
          /\ \A r \in result : CountsFor(r[1], 0) => r[2] = 0

\* A run with t = 0 that slid the window and returned a record whose first
\* position is 0 and one whose first position is the last start position.
C15_Witness ==
    /\ t = 0 /\ pc = "done" /\ n > L
    /\ \E r \in result : r[1] = KmerAt(0) /\ r[2] = 0
    /\ \E r \in result : r[2] = n - k /\ r[1] = KmerAt(n - k)

\* The number of entries of a queue that carry the tag is_exact = tag.
Tagged(q, tag) == Cardinality({j \in 1..Len(q) : q[j][2] = tag})

\* C16: in find_clumps, after every add_kmer and every remove_kmer step,
\* each entry of freq_map satisfies len(q) = exact + var, exact is the
\* number of queue entries tagged is_exact = true, var the number tagged
\* false, and both counters are >= 0.
C16_CountersMatchQueue ==
    \A v \in DOMAIN freq_map :
        /\ Len(freq_map[v].q) = freq_map[v].exact + freq_map[v].var
        /\ freq_map[v].exact = Tagged(freq_map[v].q, TRUE)
        /\ freq_map[v].var = Tagged(freq_map[v].q, FALSE)
        /\ freq_map[v].exact >= 0
        /\ freq_map[v].var >= 0

\* After a remove_kmer and an add_kmer some entry holds occurrences of both
\* tags and another entry has been emptied.
C16_Witness ==
    /\ pc = "slide" /\ i >= 2
    /\ \E v \in DOMAIN freq_map : freq_map[v].exact >= 1 /\ freq_map[v].var >= 1
    /\ \E v \in DOMAIN freq_map : freq_map[v].q = <<>>

\* The entry of a variant after the occurrence with the given tag left it.
WithoutFront(e, is_exact) ==
    [q     |-> Tail(e.q),
     exact |-> e.exact - (IF is_exact THEN 1 ELSE 0),
     var   |-> e.var - (IF is_exact THEN 0 ELSE 1)]

\* The remove half of slide step i: every variant of the k-mer leaving at
\* i - 1 has the occurrence of position i - 1 at the front of its queue,
\* tagged as that occurrence was added, and loses exactly it; no other
\* entry changes and the add half follows.
RemoveStepPopsOwnOccurrence ==
    LET kmer_out == KmerAt(i - 1)
        variants == memo_neighborhood'[kmer_out]
    IN  /\ pc' = "add"
        /\ i' = i
        /\ DOMAIN freq_map' = DOMAIN freq_map
        /\ variants \subseteq DOMAIN freq_map
        /\ \A v \in DOMAIN freq_map :
              IF v \in variants
              THEN /\ freq_map[v].q # <<>>
                   /\ Head(freq_map[v].q) = <<i - 1, v = kmer_out>>
                   /\ freq_map'[v] = WithoutFront(freq_map[v], v = kmer_out)
              ELSE freq_map'[v] = freq_map[v]

\* The add half of slide step i: every variant of the k-mer entering at
\* i + L - k gets that occurrence at the back of its queue, also when the
\* entering k-mer is the string that has just left.
AddStepAppendsOccurrence ==
    LET idx_in == i + L - k
        kmer_in == KmerAt(idx_in)
        variants == memo_neighborhood'[kmer_in]
    IN  /\ pc' = "slide"
        /\ i' = i + 1
        /\ \A v \in variants :
              /\ v \in DOMAIN freq_map'
              /\ freq_map'[v].q =
                    Append(IF v \in DOMAIN freq_map THEN freq_map[v].q ELSE <<>>,
                           <<idx_in, v = kmer_in>>)

\* C17: at every slide step i of find_clumps (n >= L >= k >= 1), for each
\* variant of the k-mer leaving at position i - 1, the entry popped from the
\* front of that variant's queue carries position tag i - 1, so the counter
\* decremented (exact or var) is the one this same occurrence incremented;
\* this also holds when the entering and the leaving k-mer are the same
\* string, in which case both the remove and the add are executed.
C17_RemovePopsOwnOccurrence ==
    [][/\ (pc = "slide" /\ i < n - L + 1) => RemoveStepPopsOwnOccurrence
       /\ pc = "add" => AddStepAppendsOccurrence]_vars

\* A slide step has completed in which the entering and the leaving k-mer
\* were the same string: its queue holds the occurrence that entered and no
\* longer the one that left.
C17_Witness ==
    /\ pc = "slide" /\ i >= 2 /\ d >= 1
    /\ KmerAt(i - 2) = KmerAt(i - 1 + L - k)
    /\ KmerAt(i - 2) \in DOMAIN freq_map
    /\ LET q == freq_map[KmerAt(i - 2)].q
       IN  /\ q # <<>>
           /\ q[Len(q)] = <<i - 1 + L - k, TRUE>>
           /\ Head(q)[1] >= i - 1

\* C18: in every run of find_clumps whose scan begins (n >= L), for every
\* integer k, L, t, d and every use_rc, remove_kmer never pops from an empty
\* queue and never looks up a variant that has no entry in freq_map: queue
\* underflow and missing-entry failures are unreachable.
C18_RemoveNeverFails ==
    n >= L =>
        /\ pc # "error"
        /\ error \notin {"KeyError", "IndexError"}
        /\ (pc = "slide" /\ i < n - L + 1) =>
              \A kmer \in {Slice(sequence, i - 1, i - 1 + k)} :
                 remove_failures(freq_map,
                     memo_after(memo_neighborhood, kmer, d, use_rc)[kmer]) = {}

\* The sum of a list of counts, as the number of pairs (index, unit).
SumOfList(lst) ==
    Cardinality(UNION {{<<j, u>> : u \in 1..lst[j]} : j \in 1..Len(lst)})

\* The sum over all variants of exact + var, as the number of pairs
\* (variant, unit).
SumOfCounts(fm) ==
    Cardinality(UNION {{<<v, u>> : u \in 1..(fm[v].exact + fm[v].var)} :
                           v \in DOMAIN fm})

\* The (occurrence, variant) contributions of the window that starts at w:
\* the pairs of a start position in the window and a pattern its k-mer
\* counts for.
Contributions(w) ==
    {pv \in (w..(w + L - k)) \X Patterns(k) : CountsFor(pv[2], pv[1])}

\* C19: after the first window is initialised and after every completed
\* slide step (n >= L >= k >= 1): in the exact clumpFinder the sum of the
\* frequency array equals L - k + 1, the number of k-mer start positions in
\* the window, and every entry is >= 0; in find_clumps the sum over all
\* variants of exact + var equals the sum, over the start positions p in
\* the current window, of the size of the variant set of the k-mer at p.
\* The first window is complete when clumpFinder is at "marks" and
\* find_clumps at "slide"; a slide step is complete when the detector is
\* back at "slide"; both positions are reached only with n >= L.
C19_CountsSumToWindow ==
    /\ xpc \in {"marks", "slide"} =>
          /\ SumOfList(frecuencias) = L - k + 1
          /\ \A j \in 1..Len(frecuencias) : frecuencias[j] >= 0
    /\ pc = "slide" =>
          SumOfCounts(freq_map) = Cardinality(Contributions(i - 1))

\* Both detectors have slid a window of at least two k-mers: find_clumps
\* has returned and clumpFinder has completed a slide step; the counts of
\* each sum to the number of start positions of the window.
C19_Witness ==
    /\ n > L /\ L - k + 1 >= 2
    /\ pc = "done" /\ i >= 2
    /\ xpc = "slide" /\ xi >= 2
    /\ SumOfList(frecuencias) = L - k + 1
    /\ SumOfCounts(freq_map) = L - k + 1
    /\ \E j \in 1..Len(frecuencias) : frecuencias[j] >= 2

\* The start of the window find_clumps holds: 0 while the first window is
\* built, i - 1 before and during slide step i.
fc_window_start == IF pc = "init" THEN 0 ELSE i - 1

\* The start of the window clumpFinder holds: 0 while the first window is
\* counted and marked, xi - 1 before slide step xi.
ex_window_start == IF xpc \in {"cfr", "marks"} THEN 0 ELSE xi - 1

\* The positions 0-based of the sequence the next step of find_clumps
\* reads.
fc_reads ==
    IF pc = "init" /\ i < L - k + 1 THEN i..(i + k - 1)
    ELSE IF pc = "slide" /\ i < n - L + 1 THEN (i - 1)..(i - 1 + k - 1)
    ELSE IF pc = "add" THEN (i + L - k)..(i + L - 1)
    ELSE {}

\* The positions 0-based of the sequence the next step of clumpFinder reads.
\* The call with n >= L takes secuencia[0:L] (line 55) and, inside
\* ComputeFrequenciesRolling, text[0:k] of it (line 32); with n < L it
\* returns before any read.
ex_reads ==
    IF xpc = "wait" /\ n >= L THEN 0..(L - 1)
    ELSE IF xpc = "cfr" /\ ci < Len(text) - k + 1 THEN {ci + k - 1}
    ELSE IF xpc = "marks" THEN (0..(k - 1)) \cup ((L - k)..(L - 1))
    ELSE IF xpc = "slide" /\ xi < n - L + 1 THEN {xi + k - 1, xi + L - 1}
    ELSE {}

\* While the scan is active the window lies in the sequence and every read
\* is inside it; a scan that has ended has made n - L slide steps.
WindowInBounds ==
    /\ pc \in {"init", "slide", "add"} =>
          /\ fc_window_start >= 0
          /\ fc_window_start + L <= n + 1
          /\ fc_reads \subseteq 0..(n - 1)
    /\ xpc \in {"cfr", "marks", "slide"} =>
          /\ ex_window_start >= 0
          /\ ex_window_start + L <= n + 1
    /\ xpc \in {"wait", "cfr", "marks", "slide"} =>
          ex_reads \subseteq 0..(n - 1)
    /\ pc = "init" => i \in 0..(L - k + 1)
    /\ (pc = "done" /\ n >= L) => fc_window_start = n - L
    /\ (xpc = "done" /\ n >= L) => ex_window_start = n - L

\* The window start is 0 in the first window and moves by exactly one in
\* each slide step: in find_clumps when the add half completes, in
\* clumpFinder in the single step of the slide.
WindowAdvances ==
    /\ (pc = "init" /\ pc' = "slide") => fc_window_start' = 0
    /\ (pc = "slide" /\ pc' = "add") => fc_window_start' = fc_window_start
    /\ pc = "add" => /\ pc' = "slide"
                     /\ fc_window_start' = fc_window_start + 1
    /\ (xpc = "marks" /\ xpc' = "slide") => ex_window_start' = 0
    /\ (xpc = "slide" /\ xpc' = "slide" /\ xi' # xi) =>
          ex_window_start' = ex_window_start + 1
    /\ (pc = "slide" /\ pc' = "done") => fc_window_start' = fc_window_start
    /\ (xpc = "slide" /\ xpc' = "done") => ex_window_start' = ex_window_start

\* C20: in both detectors the window start begins at 0, advances by exactly
\* 1 per slide step, and satisfies window_start + L <= n + 1 at every step
\* while the scan is active; every index read from the sequence lies in
\* [0, n), and the scan ends after exactly n - L slide steps.
C20_WindowStaysInSequence == []WindowInBounds /\ [][WindowAdvances]_vars

\* Both detectors have ended after at least two slide steps, the window
\* start at n - L.
C20_Witness ==
    /\ pc = "done" /\ xpc = "done" /\ n - L >= 2
    /\ i - 1 = n - L /\ xi - 1 = n - L

\* C21: for every input list of equal-length clump records and every
\* d' >= 0, the output of clean_clump_noise contains only records of the
\* input, unmodified, and no two output records have patterns within
\* Hamming distance <= d' of each other; the same holds of the
\* representatives selected so far in every round.
C21_OutputFarApart ==
    /\ Range(cl_result) \subseteq Range(clump_results)
    /\ \A a, b \in 1..Len(cl_result) :
          a # b => hamming_distance(cl_result[a][1], cl_result[b][1]) > cl_d
    /\ cl_pc = "returned" =>
          /\ Range(cl_returned) \subseteq Range(clump_results)
          /\ \A a, b \in 1..Len(cl_returned) :
                a # b =>
                   hamming_distance(cl_returned[a][1], cl_returned[b][1]) > cl_d

\* The call returned two records after it dropped a record whose pattern
\* occurs in the input twice, with d' >= 1.
C21_Witness ==
    /\ cl_pc = "returned" /\ cl_d >= 1
    /\ Len(cl_returned) = 2
    /\ Len(clump_results) = 3
    /\ \E a, b \in 1..Len(clump_results) :
          a # b /\ clump_results[a][1] = clump_results[b][1]

\* x has a key (exact count, exact + variant total) at least that of y.
KeyAtLeast(x, y) == ~key_less(x, y)

\* A round selects a record of remaining whose key no remaining record
\* exceeds.
RoundSelectsMaximal ==
    (cl_pc = "loop" /\ remaining # <<>>) =>
        /\ Len(cl_result') = Len(cl_result) + 1
        /\ SubSeq(cl_result', 1, Len(cl_result)) = cl_result
        /\ cl_result'[Len(cl_result')] \in Range(remaining)
        /\ \A r \in Range(remaining) :
              KeyAtLeast(cl_result'[Len(cl_result')], r)

\* Every record of the input is, at any moment of the loop, still
\* remaining, or selected, or within d' of a selected record whose key is at
\* least its own; once the function has returned, a record of the globally
\* highest key is in the output and every record missing from the output is
\* covered by such a record of the output.
DroppedAreCovered ==
    /\ cl_pc = "loop" =>
          \A r \in Range(clump_results) :
             \/ r \in Range(remaining)
             \/ \E o \in Range(cl_result) :
                   /\ hamming_distance(r[1], o[1]) <= cl_d
                   /\ KeyAtLeast(o, r)
    /\ (cl_pc = "returned" /\ clump_results # <<>>) =>
          /\ \E o \in Range(cl_returned) :
                \A r \in Range(clump_results) : KeyAtLeast(o, r)
          /\ \A r \in Range(clump_results) :
                r \notin Range(cl_returned) =>
                   \E o \in Range(cl_returned) :
                      /\ hamming_distance(r[1], o[1]) <= cl_d
                      /\ KeyAtLeast(o, r)

\* C22: in clean_clump_noise every round selects a remaining record that is
\* maximal for the key (exact count, exact + variant total) in lexicographic
\* order; hence a record of the input with the globally highest key is
\* always in the output, and every input record missing from the output
\* lies within Hamming distance <= d' of an output record whose key is >=
\* its own.
C22_GreedySelectsMaximal == []DroppedAreCovered /\ [][RoundSelectsMaximal]_vars

\* The call returned after it dropped a record whose exact count equals the
\* exact count of the record that covers it and whose total is smaller:
\* the tie-break decided.
C22_Witness ==
    /\ cl_pc = "returned" /\ cl_d >= 1
    /\ Len(cl_returned) >= 2
    /\ \E r \in Range(clump_results) :
          /\ r \notin Range(cl_returned)
          /\ \E o \in Range(cl_returned) :
                /\ hamming_distance(r[1], o[1]) <= cl_d
                /\ o[3] = r[3]
                /\ o[3] + o[4] > r[3] + r[4]
          /\ \A o \in Range(cl_returned) :
                hamming_distance(r[1], o[1]) <= cl_d => o[3] = r[3]

\* C23: with d = 0 and use_rc = false the approximate detector agrees with
\* the exact counter: the set of patterns in the records find_clumps
\* returned equals the set of patterns clumpFinder returned, and every
\* record has variant count 0.
C23_ExactModeAgrees ==
    (xpc = "done" /\ pc = "done" /\ d = 0 /\ ~use_rc) =>
        /\ PatternsOf(result) = Range(xresult)
        /\ \A r \in result : r[4] = 0

\* Both detectors have slid the window and returned the same two or more
\* patterns, one of them found only after a slide.
C23_Witness ==
    /\ xpc = "done" /\ pc = "done" /\ d = 0 /\ ~use_rc
    /\ n > L /\ k >= 2
    /\ Len(xresult) >= 2
    /\ PatternsOf(result) = Range(xresult)
    /\ \E r \in result : r[2] >= 1

\* C28: find_clumps of ClumpFinder.py and clumpFinder of
\* BetterClumpFinder.py return the same set of k-mers for every sequence
\* over {A,C,G,T} and every k >= 1, L >= k, t >= 1, including sequences
\* shorter than L, and the position-list version reports each k-mer at most
\* once.
C28_PositionListAgrees ==
    /\ pf_pc # "error"
    /\ (pf_pc = "done" /\ xpc = "done") =>
          /\ Range(pf_clumps) = Range(xresult)
          /\ \A a, b \in 1..Len(pf_clumps) :
                a # b => pf_clumps[a] # pf_clumps[b]

\* C24: the book-style d_neighborhood(pattern, d) returns all the k-mers
\* within Hamming distance at most d of the pattern, for every non-empty
\* pattern over {A,C,G,T} and every d >= 0, that is the same set as the
\* recursive d_neighborhood of GenerateNeighborhood.py; for d = 0 it
\* returns the singleton {pattern}.
C24_BookNeighborhoodIsHammingBall ==
    nb_pc = "book_done" =>
        /\ nb_result =
              {s \in Patterns(Len(nb_pattern)) :
                  hamming_distance(s, nb_pattern) <= nb_d}
        /\ nb_result = d_neighborhood(nb_pattern, nb_d)
        /\ nb_d = 0 => nb_result = {nb_pattern}

\* The start positions of dna_seq at which the substring of the length of
\* the pattern is within distance d of the pattern.
ApproximateOccurrences ==
    {p \in 0..(Len(dna_seq) - Len(am_pattern)) :
        hamming_distance(am_pattern,
            SubSeq(dna_seq, p + 1, p + Len(am_pattern))) <= am_d}

\* C25: approximate_pattern_matching(pattern, dna_seq, d) returns, in
\* ascending order, all starting positions i in
\* [0, len(dna_seq) - len(pattern)] at which the substring of dna_seq of the
\* pattern's length is within Hamming distance <= d of pattern, including
\* the last possible position len(dna_seq) - len(pattern), and no other
\* position.
C25_AllApproximateOccurrences ==
    am_pc = "done" =>
        /\ Range(d_match_ind) = ApproximateOccurrences
        /\ \A a, b \in 1..Len(d_match_ind) :
              a < b => d_match_ind[a] < d_match_ind[b]

\* The start positions find_clumps holds in its window once the add_kmer of
\* the step that starts in the current state has run: 0..i while the first
\* window is built, i..(i + L - k) in slide step i.
fc_held_after_add == IF pc = "init" THEN 0..i ELSE i..(i + L - k)

\* Every record of the returned list has counts >= 0 that sum to t.
RecordsSumToThreshold ==
    pc = "done" =>
        \A r \in result : r[3] + r[4] = t /\ r[3] >= 0 /\ r[4] >= 0

\* A step that writes a record writes counts >= 0 that sum to t, the exact
\* count being the number of positions held whose k-mer is the pattern; a
\* record once written is kept as it is.
RecordTakenAtThreshold ==
    /\ \A v \in (DOMAIN clumps') \ (DOMAIN clumps) :
           /\ pc \in {"init", "add"}
           /\ clumps'[v][1] = v
           /\ clumps'[v][3] + clumps'[v][4] = t
           /\ clumps'[v][3] >= 0 /\ clumps'[v][4] >= 0
           /\ clumps'[v][3] =
                 Cardinality({p \in fc_held_after_add : KmerAt(p) = v})
    /\ \A v \in (DOMAIN clumps') \cap (DOMAIN clumps) : clumps'[v] = clumps[v]

\* C26: for t >= 1, every record (pattern, position, exact_count,
\* variant_count) returned by find_clumps satisfies exact_count +
\* variant_count = t with both counts >= 0: the record is taken at the first
\* add step where the combined count, which grows by one per add step,
\* reaches t; exact_count is the number of start positions held in the
\* window at that moment whose k-mer equals the pattern.
C26_RecordCountsSumToThreshold ==
    []RecordsSumToThreshold /\ [][RecordTakenAtThreshold]_vars

\* find_clumps has returned a record taken in a slide step with both an
\* exact and an approximate occurrence in the window, and a record taken
\* while the first window was built.
C26_Witness ==
    /\ pc = "done" /\ t = 2
    /\ \E r \in result : r[3] = 1 /\ r[4] = 1 /\ r[2] >= 1
    /\ \E r \in result : r[2] = 0 /\ r[3] + r[4] = t

\* C27: find_clumps and clumpFinder_with_mismatches_and_rc return the same
\* set of (pattern, first position, exact count, variant count) records
\* for every sequence and every k, L, t, d, use_rc with n >= L >= k >= 1,
\* although find_clumps memoises the union of the neighbourhoods of the
\* k-mer and of its reverse complement and the script memoises each
\* neighbourhood and unites copies.
C27_StandaloneAgrees ==
    (n >= L /\ L >= k /\ k >= 1 /\ sm_pc \in {"done", "error"}) =>
        /\ pc = "done" /\ sm_pc = "done"
        /\ sm_result = result

\* Both functions have returned the same non-empty list after a slide, in
\* reverse-complement mode with mismatches, having memoised different
\* dicts.
C27_Witness ==
    /\ n > L /\ use_rc /\ d >= 1
    /\ pc = "done" /\ sm_pc = "done"
    /\ sm_result = result /\ result # {}
    /\ sm_memo # memo_neighborhood
    /\ \E r \in result : r[3] >= 1 /\ r[4] >= 1
====
